---- MODULE Spec2Model ----
(***************************************************************************)
(* Model of the sentient memory subsystem: the execution store (SQLite     *)
(* tables executions, performance_metrics, memory_links, file_changes),    *)
(* the two store paths (MemoryManager.storeExecution,                      *)
(* ExecutionContextManager.storeEnhancedExecution), retention cleanup,     *)
(* the analytics, the repair of the integrity checker, and the             *)
(* AdvancedRelevanceScorer (eight factors, weighted combination, sort).    *)
(*                                                                         *)
(* Numbers are JavaScript numbers restricted to rationals plus NaN: a      *)
(* number is a record [n, d] with d > 0 in lowest terms, or d = 0 for NaN. *)
(* Text is a sequence of one-character strings.  Time is counted in days.  *)
(***************************************************************************)
EXTENDS Integers, Sequences, FiniteSets, TLC

VARIABLES db, dbOpen, now, weights, pass, pass2, lastCall

vars == <<db, dbOpen, now, weights, pass, pass2, lastCall>>

-----------------------------------------------------------------------------
(* JavaScript numbers: rationals and NaN                                   *)

Abs(x) == IF x < 0 THEN -x ELSE x

RECURSIVE GCD(_, _)
GCD(a, b) == IF b = 0 THEN a ELSE GCD(b, a % b)

NaN == [n |-> 0, d |-> 0]

IsNaN(x) == x.d = 0

\* the rational n/d (d # 0) in lowest terms with a positive denominator
R(n, d) ==
    LET s == IF d < 0 THEN -1 ELSE 1
        g == GCD(Abs(n), Abs(d))
    IN  [n |-> (s * n) \div g, d |-> (s * d) \div g]

Zero == R(0, 1)
One == R(1, 1)
Half == R(1, 2)

LCM(a, b) == (a \div GCD(a, b)) * b

\* x + y, x - y, x * y, x / y of JavaScript (NaN is contagious)
RAdd(x, y) ==
    IF IsNaN(x) \/ IsNaN(y) THEN NaN
    ELSE LET l == LCM(x.d, y.d)
         IN  R(x.n * (l \div x.d) + y.n * (l \div y.d), l)

RNeg(x) == IF IsNaN(x) THEN NaN ELSE [n |-> -x.n, d |-> x.d]

RSub(x, y) == RAdd(x, RNeg(y))

RMul(x, y) ==
    IF IsNaN(x) \/ IsNaN(y) THEN NaN
    ELSE LET g1 == GCD(Abs(x.n), y.d)
             g2 == GCD(Abs(y.n), x.d)
         IN  R((x.n \div g1) * (y.n \div g2), (x.d \div g2) * (y.d \div g1))

\* only used with y # 0
RDiv(x, y) ==
    IF IsNaN(x) \/ IsNaN(y) \/ y.n = 0 THEN NaN
    ELSE RMul(x, R(y.d, y.n))

\* x < y on rationals, by continued-fraction expansion (no cross products)
RECURSIVE RatLess(_, _, _, _)
RatLess(an, ad, bn, bd) ==
    LET fa == an \div ad
        fb == bn \div bd
        ra == an % ad
        rb == bn % bd
    IN  IF fa # fb THEN fa < fb
        ELSE IF rb = 0 THEN FALSE
        ELSE IF ra = 0 THEN TRUE
        ELSE RatLess(bd, rb, ad, ra)

\* the comparison operators of JavaScript: every comparison with NaN is false
RLt(x, y) == ~IsNaN(x) /\ ~IsNaN(y) /\ RatLess(x.n, x.d, y.n, y.d)
RGt(x, y) == RLt(y, x)
RLe(x, y) == ~IsNaN(x) /\ ~IsNaN(y) /\ ~RatLess(y.n, y.d, x.n, x.d)
RGe(x, y) == RLe(y, x)

\* Math.max, Math.min, Math.abs
MathMax(x, y) == IF IsNaN(x) \/ IsNaN(y) THEN NaN ELSE IF RLt(x, y) THEN y ELSE x
MathMin(x, y) == IF IsNaN(x) \/ IsNaN(y) THEN NaN ELSE IF RLt(y, x) THEN y ELSE x
MathAbs(x) == IF IsNaN(x) THEN NaN ELSE [n |-> Abs(x.n), d |-> x.d]

\* a JavaScript value used as a condition: 0 and NaN are falsy
Truthy(x) == ~IsNaN(x) /\ x.n # 0

\* parseInt of the decimal text of a number: truncation toward zero
ParseIntOf(x) ==
    IF IsNaN(x) THEN NaN
    ELSE IF x.n >= 0 THEN R(x.n \div x.d, 1) ELSE R(-((-x.n) \div x.d), 1)

InUnit(x) == RLe(Zero, x) /\ RLe(x, One)

-----------------------------------------------------------------------------
(* Text: sequences of one-character strings                                *)

Lower(c) ==
    CASE c = "F" -> "f"
      [] c = "P" -> "p"
      [] c = "B" -> "b"
      [] c = "N" -> "n"
      [] OTHER -> c

\* String.prototype.toLowerCase
toLowerCase(t) == [i \in 1..Len(t) |-> Lower(t[i])]

\* \s of a regular expression
IsSpace(c) == c = " "

\* \w of a regular expression: letters, digits and the underscore
IsWordChar(c) == c \notin {" ", ".", ",", "!", "?", "-", "/"}

\* String.prototype.substring(a, b), a and b counted from 0
Substring(t, a, b) ==
    LET lo == IF a > Len(t) THEN Len(t) ELSE a
        hi == IF b > Len(t) THEN Len(t) ELSE b
    IN  IF hi <= lo THEN <<>> ELSE SubSeq(t, lo + 1, hi)

\* String.prototype.includes: t has s as a contiguous part
Includes(t, s) ==
    \E i \in 0..(Len(t) - Len(s)) : SubSeq(t, i + 1, i + Len(s)) = s

\* String.prototype.split(/\s+/): the pieces between maximal runs of spaces;
\* a leading or trailing run gives an empty first or last piece
RECURSIVE SplitFrom(_, _, _)
SplitFrom(t, i, cur) ==
    IF i > Len(t) THEN <<cur>>
    ELSE IF IsSpace(t[i])
         THEN IF i > 1 /\ IsSpace(t[i - 1])
              THEN SplitFrom(t, i + 1, cur)
              ELSE <<cur>> \o SplitFrom(t, i + 1, <<>>)
         ELSE SplitFrom(t, i + 1, Append(cur, t[i]))

SplitWS(t) == SplitFrom(t, 1, <<>>)

Range(s) == {s[i] : i \in 1..Len(s)}

\* an optional text: <<>> is null or undefined, <<t>> is the text t
None == <<>>
Some(t) == <<t>>

\* `x || null` and `x ? .. : ..` on an optional text: '' is falsy
TruthyText(o) == o # None /\ o[1] # <<>>

-----------------------------------------------------------------------------
(* The texts of the model                                                  *)

Kw_implement == <<"i", "m", "p", "l", "e", "m", "e", "n", "t">>
Kw_create == <<"c", "r", "e", "a", "t", "e">>
Kw_build == <<"b", "u", "i", "l", "d">>
Kw_design == <<"d", "e", "s", "i", "g", "n">>
Kw_optimize == <<"o", "p", "t", "i", "m", "i", "z", "e">>
Kw_analyze == <<"a", "n", "a", "l", "y", "z", "e">>
Kw_algorithm == <<"a", "l", "g", "o", "r", "i", "t", "h", "m">>
Kw_database == <<"d", "a", "t", "a", "b", "a", "s", "e">>
Kw_system == <<"s", "y", "s", "t", "e", "m">>
Kw_architecture == <<"a", "r", "c", "h", "i", "t", "e", "c", "t", "u", "r", "e">>
Kw_performance == <<"p", "e", "r", "f", "o", "r", "m", "a", "n", "c", "e">>

TxtFixParserBug == <<"F", "i", "x", " ", "p", "a", "r", "s", "e", "r", " ", "b", "u", "g", ".">>
TxtBug == <<"b", "u", "g">>
TxtParserBug == <<"p", "a", "r", "s", "e", "r", " ", "b", "u", "g">>
TxtBugBugBug == <<"b", "u", "g", " ", "b", "u", "g", " ", "b", "u", "g">>
TxtBuildDb == <<"b", "u", "i", "l", "d", " ", "d", "a", "t", "a", "b", "a", "s", "e", " ", "p", "a", "r", "s", "e", "r">>
TxtParser == <<"p", "a", "r", "s", "e", "r">>
TxtDebugging == <<"d", "e", "b", "u", "g", "g", "i", "n", "g">>
TxtGeneral == <<"g", "e", "n", "e", "r", "a", "l">>
TxtMedium == <<"m", "e", "d", "i", "u", "m">>
TxtHigh == <<"h", "i", "g", "h">>
TxtNaN == <<"N", "a", "N">>
TxtOk == <<"o", "k">>
TxtFailed == <<"f", "a", "i", "l", "e", "d">>
TxtWrite == <<"w", "r", "i", "t", "e">>
TxtSrcFile == <<"a", ".", "t", "s">>
TxtParsed == <<"p", "a", "r", "s", "e", "d">>
TxtUnknown == <<"u", "n", "k", "n", "o", "w", "n">>
TxtCwd == <<"/", "w">>
TxtNode == <<"v", "1", "8">>
TxtLinux == <<"l", "i", "n", "u", "x">>
TxtSession == <<"s", "1">>
TxtEmpty == <<>>

-----------------------------------------------------------------------------
(* The store: executions, performance_metrics, memory_links, file_changes  *)

\* A value of performance_metrics.metric_value.  The column has REAL
\* affinity: a bound string that reads as a number is stored as that number
\* (kind "num"), any other string stays text: plain text (kind "text"), the
\* JSON text of a list of strings (kind "json"), or text that is no JSON
\* (kind "badjson").
MV(kind, num, txt, list) == [kind |-> kind, num |-> num, txt |-> txt, list |-> list]

\* a string bound to the column
TextToMetric(t) == MV("text", NaN, t, <<>>)

\* Number.prototype.toString() bound to the column: 'NaN' is no number
NumToMetric(x) == IF IsNaN(x) THEN TextToMetric(TxtNaN) ELSE MV("num", x, <<>>, <<>>)

\* JSON.stringify of a list of strings bound to the column
JsonToMetric(list) == MV("json", NaN, <<>>, list)

MalformedJson == MV("badjson", NaN, <<>>, <<>>)

\* parseFloat and parseInt of a value read back from the column
parseFloat(mv) == IF mv.kind = "num" THEN mv.num ELSE NaN
parseInt(mv) == IF mv.kind = "num" THEN ParseIntOf(mv.num) ELSE NaN

\* JSON.parse of a value read back: raises on text that is no JSON
JsonParseRaises(mv) == mv.kind \in {"badjson", "text"}

EmptyDB ==
    [executions |-> <<>>, performance_metrics |-> <<>>, memory_links |-> <<>>,
     file_changes |-> <<>>, executions_fts |-> <<>>, seq |-> 0]

ExecRow(id, ts, prompt, reasoning, outcome, success, duration) ==
    [id |-> id, timestamp |-> ts, prompt |-> prompt, reasoning |-> reasoning,
     outcome |-> outcome, success |-> success, duration_ms |-> duration]

MetricRow(eid, type, value, unit, ts) ==
    [execution_id |-> eid, metric_type |-> type, metric_value |-> value,
     unit |-> unit, timestamp |-> ts]

\* context_data is JSON text; the model keeps its parts
ContextData(texts, nums, action) == [texts |-> texts, nums |-> nums, action |-> action]

LinkRow(eid, ctype, path, data, score, ts) ==
    [execution_id |-> eid, context_type |-> ctype, context_path |-> path,
     context_data |-> data, relevance_score |-> score, created_at |-> ts]

FileChangeRow(eid, path, operation, ts) ==
    [execution_id |-> eid, file_path |-> path, operation |-> operation, timestamp |-> ts]

\* one INSERT statement: the table and the row
Write(table, row) == [table |-> table, row |-> row]

ExecIds(d) == {d.executions[i].id : i \in 1..Len(d.executions)}

\* FOREIGN KEY (execution_id) REFERENCES executions(id): an INSERT of a child
\* row whose execution is missing is refused.  DatabaseManager.initialize
\* sets no foreign_keys pragma: the keys are enforced because better-sqlite3
\* builds SQLite with enforcement on by default.
WriteRefused(d, w) ==
    w.table # "executions" /\ w.row.execution_id \notin ExecIds(d)

\* the row of the full-text index for an execution: the indexed columns the
\* model keeps
FtsRow(row) ==
    [rowid |-> row.id, prompt |-> row.prompt, reasoning |-> row.reasoning,
     outcome |-> row.outcome]

\* TRIGGER executions_fts_insert AFTER INSERT ON executions
FtsInsertTrigger(fts, row) == Append(fts, FtsRow(row))

\* an index whose entries stay when their executions are deleted
FtsDeleteTrigger_Off(fts, gone) == fts

\* TRIGGER executions_fts_delete AFTER DELETE ON executions
FtsDeleteTrigger(fts, gone) == SelectSeq(fts, LAMBDA r : r.rowid \notin gone)

\* the effect of one INSERT; executions.id is AUTOINCREMENT, so the id given
\* is one more than the largest id ever given (sqlite_sequence)
ApplyWrite(d, w) ==
    CASE w.table = "executions" ->
           [d EXCEPT !.executions = Append(@, w.row), !.seq = w.row.id,
                     !.executions_fts = FtsInsertTrigger(@, w.row)]
      [] w.table = "performance_metrics" ->
           [d EXCEPT !.performance_metrics = Append(@, w.row)]
      [] w.table = "memory_links" ->
           [d EXCEPT !.memory_links = Append(@, w.row)]
      [] w.table = "file_changes" ->
           [d EXCEPT !.file_changes = Append(@, w.row)]

\* the first k statements of ws applied in order
RECURSIVE RunWrites(_, _, _)
RunWrites(d, ws, k) ==
    IF k = 0 \/ ws = <<>> THEN d
    ELSE RunWrites(ApplyWrite(d, Head(ws)), Tail(ws), k - 1)

\* a delete that leaves the child rows where they are
OnDeleteCascade_Off(rows, gone) == rows

\* FOREIGN KEY (execution_id) REFERENCES executions(id) ON DELETE CASCADE:
\* the child rows of the deleted executions go with them
OnDeleteCascade(rows, gone) == SelectSeq(rows, LAMBDA r : r.execution_id \notin gone)

\* a delete that also takes the executions stored at the cutoff
DeleteOlderThan_Inclusive(d, cutoff) ==
    LET gone == {d.executions[i].id : i \in {j \in 1..Len(d.executions) :
                                                d.executions[j].timestamp <= cutoff}}
    IN  [d EXCEPT
           !.executions = SelectSeq(@, LAMBDA r : r.id \notin gone),
           !.performance_metrics = OnDeleteCascade(@, gone),
           !.memory_links = OnDeleteCascade(@, gone),
           !.file_changes = OnDeleteCascade(@, gone),
           !.executions_fts = FtsDeleteTrigger(@, gone)]

\* DELETE FROM executions WHERE timestamp < cutoff
DeleteOlderThan(d, cutoff) ==
    LET gone == {d.executions[i].id : i \in {j \in 1..Len(d.executions) :
                                                d.executions[j].timestamp < cutoff}}
    IN  [d EXCEPT
           !.executions = SelectSeq(@, LAMBDA r : r.id \notin gone),
           !.performance_metrics = OnDeleteCascade(@, gone),
           !.memory_links = OnDeleteCascade(@, gone),
           !.file_changes = OnDeleteCascade(@, gone),
           !.executions_fts = FtsDeleteTrigger(@, gone)]

\* ---- ExecutionContextManager.storeEnhancedExecution ----

\* calculateActionRelevance
calculateActionRelevance(action) ==
    LET r0 == Half
        r1 == IF action.status = "success" THEN RAdd(r0, R(3, 10)) ELSE r0
        r2 == IF Len(action.sideEffects) > 0 THEN RAdd(r1, R(2, 10)) ELSE r1
        r3 == IF action.status = "error" /\ action.retryCount > 0
              THEN RSub(r2, R(2, 10)) ELSE r2
        r4 == IF action.duration > 1000 THEN RAdd(r3, R(1, 10)) ELSE r3
    IN  MathMax(Zero, MathMin(One, r4))

\* storeDetailedAction: one memory_links row per action
storeDetailedAction(id, action, t) ==
    Write("memory_links",
          LinkRow(id, "detailed_action", action.command,
                  ContextData(<<>>, <<>>, <<action>>),
                  calculateActionRelevance(action), t))

\* the file_modification rows of one action, one per side effect
SideEffectLinks(id, action, t) ==
    [i \in 1..Len(action.sideEffects) |->
        Write("memory_links",
              LinkRow(id, "file_modification", action.sideEffects[i],
                      ContextData(<<action.command>>, <<>>, <<>>), One, t))]

RECURSIVE FlattenSeq(_)
FlattenSeq(ss) == IF ss = <<>> THEN <<>> ELSE Head(ss) \o FlattenSeq(Tail(ss))

\* storeMemoryLinks of the context manager: file links, tag links, category link
storeMemoryLinksEnhanced(id, ctx, t) ==
    FlattenSeq([i \in 1..Len(ctx.actions) |-> SideEffectLinks(id, ctx.actions[i], t)])
    \o [i \in 1..Len(ctx.tags) |->
          Write("memory_links",
                LinkRow(id, "tag", ctx.tags[i],
                        ContextData(<<ctx.category, ctx.priority>>, <<>>, <<>>),
                        R(8, 10), t))]
    \o <<Write("memory_links",
               LinkRow(id, "category", ctx.category,
                       ContextData(<<>>, <<ctx.complexity, ctx.confidence>>, <<>>),
                       R(9, 10), t))>>

\* the INSERT statements of the transaction body, in the order the code runs
\* them; ts is context.timestamp, t the wall clock
EnhancedWrites(id, ctx, ts, t) ==
    LET m(type, value, unit) == Write("performance_metrics", MetricRow(id, type, value, unit, ts))
    IN  <<Write("executions",
                ExecRow(id, ts, ctx.prompt,
                        IF TruthyText(ctx.reasoning) THEN ctx.reasoning ELSE None,
                        IF TruthyText(ctx.outcome) THEN ctx.outcome ELSE None,
                        ctx.success, ctx.duration)),
          m("working_directory", TextToMetric(TxtCwd), "text"),
          m("git_branch", TextToMetric(TxtUnknown), "text"),
          m("git_commit", TextToMetric(TxtUnknown), "text"),
          m("node_version", TextToMetric(TxtNode), "text"),
          m("platform", TextToMetric(TxtLinux), "text"),
          m("memory_usage", NumToMetric(R(ctx.memoryUsage, 1)), "bytes"),
          m("cpu_time", NumToMetric(Zero), "microseconds"),
          m("io_operations", NumToMetric(Zero), "count"),
          m("network_calls", NumToMetric(Zero), "count"),
          m("tags", JsonToMetric(ctx.tags), "json"),
          m("priority", TextToMetric(ctx.priority), "text"),
          m("category", TextToMetric(ctx.category), "text"),
          m("complexity", NumToMetric(ctx.complexity), "score"),
          m("confidence", NumToMetric(ctx.confidence), "percentage"),
          m("session_id", TextToMetric(ctx.sessionId), "text")>>
        \o (IF ctx.parentExecutionId # 0
            THEN <<m("parent_execution_id", NumToMetric(R(ctx.parentExecutionId, 1)), "id")>>
            ELSE <<>>)
        \o [i \in 1..Len(ctx.actions) |-> storeDetailedAction(id, ctx.actions[i], t)]
        \o storeMemoryLinksEnhanced(id, ctx, t)

\* db.transaction(body)(): the statements run in order; when statement number
\* failAt raises (0: none does) the transaction is rolled back
Transaction(d, ws, failAt) ==
    IF failAt \in 1..Len(ws) \/ \E i \in 1..Len(ws) : WriteRefused(RunWrites(d, ws, i - 1), ws[i])
    THEN [db |-> d, raised |-> TRUE]
    ELSE [db |-> RunWrites(d, ws, Len(ws)), raised |-> FALSE]

\* statements run one by one outside a transaction: each commits on its own,
\* so the statements before the raising one stay
Autocommit(d, ws, failAt) ==
    IF failAt \in 1..Len(ws)
    THEN [db |-> RunWrites(d, ws, failAt - 1), raised |-> TRUE]
    ELSE [db |-> RunWrites(d, ws, Len(ws)), raised |-> FALSE]

\* ---- MemoryManager.storeExecution ----

\* storeMemoryLinks of the memory manager: a file link per file operation
\* with a path, then the outcome link
storeMemoryLinksPlain(id, e, t) ==
    LET files == SelectSeq(e.actions, LAMBDA a : a.type = "file_operation" /\ TruthyText(a.path))
    IN  [i \in 1..Len(files) |->
           Write("memory_links",
                 LinkRow(id, "file", files[i].path[1],
                         ContextData(<<files[i].command>>, <<>>, <<>>), One, t))]
        \o (IF TruthyText(e.outcome)
            THEN <<Write("memory_links",
                         LinkRow(id, IF e.success THEN "solution" ELSE "error",
                                 Substring(e.prompt, 0, 100),
                                 ContextData(<<e.outcome[1]>>, <<>>, <<>>),
                                 IF e.success THEN R(9, 10) ELSE R(8, 10), t))>>
            ELSE <<>>)

\* the INSERT statements of storeExecution in the order the code runs them
PlainWrites(id, e, ts, t) ==
    <<Write("executions",
            ExecRow(id, ts, e.prompt,
                    IF TruthyText(e.reasoning) THEN e.reasoning ELSE None,
                    IF TruthyText(e.outcome) THEN e.outcome ELSE None,
                    e.success, e.duration))>>
    \o storeMemoryLinksPlain(id, e, t)

-----------------------------------------------------------------------------
(* AdvancedRelevanceScorer: the eight factors                              *)

FactorNames ==
    <<"ftsScore", "recencyScore", "successScore", "complexityScore",
      "confidenceScore", "contextScore", "frequencyScore", "semanticScore">>

\* eight equal weights
DefaultWeights_Uniform == [f \in Range(FactorNames) |-> R(1, 8)]

\* the weights set by the constructor, in hundredths
DefaultWeights ==
    [f \in Range(FactorNames) |->
        CASE f = "ftsScore" -> R(20, 100)
          [] f = "recencyScore" -> R(12, 100)
          [] f = "successScore" -> R(15, 100)
          [] f = "complexityScore" -> R(8, 100)
          [] f = "confidenceScore" -> R(8, 100)
          [] f = "contextScore" -> R(12, 100)
          [] f = "frequencyScore" -> R(5, 100)
          [] f = "semanticScore" -> R(20, 100)]

\* Math.max(0, Math.min(1, 1 + rank / 10))
calculateFTSScore(rank) ==
    MathMax(Zero, MathMin(One, RAdd(One, RDiv(rank, R(10, 1)))))

\* Math.exp(-k) in thousandths, k = ageInDays / 30 a whole number
MathExpNeg(k) ==
    CASE k <= -3 -> R(20086, 1000)
      [] k = -2 -> R(7389, 1000)
      [] k = -1 -> R(2718, 1000)
      [] k = 0 -> One
      [] k = 1 -> R(368, 1000)
      [] k = 2 -> R(135, 1000)
      [] k = 3 -> R(50, 1000)
      [] k = 4 -> R(18, 1000)
      [] k = 5 -> R(7, 1000)
      [] k = 6 -> R(2, 1000)
      [] k = 7 -> R(1, 1000)
      [] OTHER -> Zero

\* Math.exp(-ageInDays / 30); timestamps and the clock are in days
calculateRecencyScore(timestamp, t) == MathExpNeg((t - timestamp) \div 30)

\* prompt LIKE '%s%': LIKE ignores the case of ASCII letters
Like(text, s) == Includes(toLowerCase(text), toLowerCase(s))

\* ORDER BY timestamp DESC with no LIMIT
MostRecent_NoLimit(rows, n) == rows

\* ORDER BY timestamp DESC LIMIT n
RECURSIVE MostRecent(_, _)
MostRecent(rows, n) ==
    IF n = 0 \/ rows = <<>> THEN <<>>
    ELSE LET top == CHOOSE i \in 1..Len(rows) :
                      \A j \in 1..Len(rows) :
                         \/ rows[j].timestamp < rows[i].timestamp
                         \/ rows[j].timestamp = rows[i].timestamp /\ rows[j].id <= rows[i].id
         IN  <<rows[top]>> \o
             MostRecent(SubSeq(rows, 1, top - 1) \o SubSeq(rows, top + 1, Len(rows)), n - 1)

\* rows.filter(p => p.success).length
CountSuccess(rows) == Len(SelectSeq(rows, LAMBDA r : r.success))

calculateSuccessScore(d, open, result) ==
    IF ~open THEN (IF result.success THEN R(8, 10) ELSE R(3, 10))
    ELSE LET similarPrompts ==
                 MostRecent(SelectSeq(d.executions,
                                      LAMBDA r : Like(r.prompt, Substring(result.prompt, 0, 50))),
                            10)
             successRate == R(CountSuccess(similarPrompts), Len(similarPrompts))
         IN  IF Len(similarPrompts) = 0 THEN Half
             ELSE IF result.success THEN MathMax(successRate, R(8, 10))
             ELSE RMul(successRate, Half)

\* /\b(kw)\b/i.test(text): kw stands in text between non-word characters
HasWord(text, kw) ==
    LET low == toLowerCase(text)
    IN  \E i \in 1..(Len(text) - Len(kw) + 1) :
           /\ SubSeq(low, i, i + Len(kw) - 1) = kw
           /\ (i = 1 \/ ~IsWordChar(text[i - 1]))
           /\ (i + Len(kw) - 1 = Len(text) \/ ~IsWordChar(text[i + Len(kw)]))

SpecialTerms == {Kw_implement, Kw_create, Kw_build, Kw_design, Kw_optimize, Kw_analyze}
TechnicalTerms == {Kw_algorithm, Kw_database, Kw_system, Kw_architecture, Kw_performance}

estimateQueryComplexity(query) ==
    LET words == Len(SplitWS(query))
        base == MathMin(R(10, 1), MathMax(One, R(words, 2)))
        c1 == IF \E kw \in SpecialTerms : HasWord(query, kw) THEN RAdd(base, R(2, 1)) ELSE base
        c2 == IF \E kw \in TechnicalTerms : HasWord(query, kw) THEN RAdd(c1, One) ELSE c1
    IN  MathMin(R(10, 1), c2)

\* db.prepare(SELECT metric_value .. WHERE execution_id = ? AND metric_type = ?).get(id):
\* the first such row, as <<row>>, or <<>>
GetMetric(d, id, type) ==
    LET rows == SelectSeq(d.performance_metrics,
                          LAMBDA r : r.execution_id = id /\ r.metric_type = type)
    IN  IF rows = <<>> THEN <<>> ELSE <<rows[1]>>

calculateComplexityScore(d, open, query, result) ==
    IF ~open THEN Half
    ELSE LET complexity == GetMetric(d, result.id, "complexity")
         IN  IF complexity = <<>> THEN Half
             ELSE LET complexityValue == parseInt(complexity[1].metric_value)
                      difference == MathAbs(RSub(complexityValue, estimateQueryComplexity(query)))
                  IN  MathMax(Zero, RSub(One, RDiv(difference, R(10, 1))))

calculateConfidenceScore(d, open, result) ==
    IF ~open THEN Half
    ELSE LET confidence == GetMetric(d, result.id, "confidence")
         IN  IF confidence = <<>> THEN Half ELSE parseFloat(confidence[1].metric_value)

calculateContextScore(d, open, query, result) ==
    IF ~open THEN R(3, 10)
    ELSE LET tags == GetMetric(d, result.id, "tags")
             category == GetMetric(d, result.id, "category")
             queryWords == SplitWS(toLowerCase(query))
             tagList == tags[1].metric_value.list
             matchingTags ==
                 SelectSeq(tagList, LAMBDA tag :
                     \E i \in 1..Len(queryWords) :
                        \/ Includes(toLowerCase(tag), queryWords[i])
                        \/ Includes(queryWords[i], toLowerCase(tag)))
             tagPart == IF tags = <<>> THEN Zero
                        ELSE RMul(R(Len(matchingTags), IF Len(tagList) > 1 THEN Len(tagList) ELSE 1),
                                  R(6, 10))
             catPart == IF category # <<>> /\
                           \E i \in 1..Len(queryWords) :
                              Includes(toLowerCase(category[1].metric_value.txt), queryWords[i])
                        THEN R(4, 10) ELSE Zero
         IN  IF tags # <<>> /\ JsonParseRaises(tags[1].metric_value) THEN R(3, 10)
             ELSE IF category # <<>> /\ category[1].metric_value.kind # "text" THEN R(3, 10)
             ELSE MathMin(One, RAdd(tagPart, catPart))

calculateFrequencyScore(d, open, query, result) ==
    IF ~open THEN Half
    ELSE LET queryWords == SelectSeq(SplitWS(toLowerCase(query)), LAMBDA w : Len(w) > 3)
             similar == SelectSeq(d.executions, LAMBDA r :
                            \E i \in 1..Len(queryWords) : Like(r.prompt, queryWords[i]))
             successfulSimilar == CountSuccess(similar)
         IN  IF Len(queryWords) = 0 THEN Half
             ELSE IF Len(similar) = 0 THEN Half
             ELSE R(successfulSimilar, Len(similar))

\* text.replace(/[^\w\s]/g, ' ').split(/\s+/).filter(len > 2).map(toLowerCase)
tokenize(text) ==
    LET cleaned == [i \in 1..Len(text) |->
                       IF IsWordChar(text[i]) \/ IsSpace(text[i]) THEN text[i] ELSE " "]
        kept == SelectSeq(SplitWS(cleaned), LAMBDA w : Len(w) > 2)
    IN  [i \in 1..Len(kept) |-> toLowerCase(kept[i])]

jaccardSimilarity(set1, set2) ==
    IF Len(set1) = 0 /\ Len(set2) = 0 THEN One
    ELSE IF Len(set1) = 0 \/ Len(set2) = 0 THEN Zero
    ELSE LET intersection == SelectSeq(set1, LAMBDA w : w \in Range(set2))
             union == Range(set1) \cup Range(set2)
         IN  R(Len(intersection), Cardinality(union))

calculateSemanticScore(query, result) ==
    LET queryWords == tokenize(toLowerCase(query))
        promptWords == tokenize(toLowerCase(result.prompt))
        reasoningWords == IF TruthyText(result.reasoning)
                          THEN tokenize(toLowerCase(result.reasoning[1])) ELSE <<>>
    IN  RAdd(RMul(jaccardSimilarity(queryWords, promptWords), R(7, 10)),
             RMul(jaccardSimilarity(queryWords, reasoningWords), R(3, 10)))

calculateAllFactors(d, open, t, query, result) ==
    [f \in Range(FactorNames) |->
        CASE f = "ftsScore" -> calculateFTSScore(result.rank)
          [] f = "recencyScore" -> calculateRecencyScore(result.timestamp, t)
          [] f = "successScore" -> calculateSuccessScore(d, open, result)
          [] f = "complexityScore" -> calculateComplexityScore(d, open, query, result)
          [] f = "confidenceScore" -> calculateConfidenceScore(d, open, result)
          [] f = "contextScore" -> calculateContextScore(d, open, query, result)
          [] f = "frequencyScore" -> calculateFrequencyScore(d, open, query, result)
          [] f = "semanticScore" -> calculateSemanticScore(query, result)]

\* the sum of g(f) over the factors f of names, in the order of the loop
RECURSIVE SumOver(_, _, _)
SumOver(names, g, i) ==
    IF i > Len(names) THEN Zero ELSE RAdd(g[names[i]], SumOver(names, g, i + 1))

\* the weighted sum left undivided
calculateWeightedScore_Unnormalised(factors, w) ==
    LET weightedSum == SumOver(FactorNames, [f \in Range(FactorNames) |-> RMul(factors[f], w[f])], 1)
        totalWeight == SumOver(FactorNames, w, 1)
    IN  IF RGt(totalWeight, Zero) THEN weightedSum ELSE Zero

\* a weighted score whose loop reads the weight of the first factor from the
\* map of the constructor and the other weights from the present map
calculateWeightedScore_MixedMaps(factors, w) ==
    LET m == [f \in Range(FactorNames) |-> IF f = FactorNames[1] THEN DefaultWeights[f] ELSE w[f]]
        weightedSum == SumOver(FactorNames, [f \in Range(FactorNames) |-> RMul(factors[f], m[f])], 1)
        totalWeight == SumOver(FactorNames, m, 1)
    IN  IF RGt(totalWeight, Zero) THEN RDiv(weightedSum, totalWeight) ELSE Zero

\* calculateWeightedScore: the sums run over the factors in their order
calculateWeightedScore(factors, w) ==
    LET weightedSum == SumOver(FactorNames, [f \in Range(FactorNames) |-> RMul(factors[f], w[f])], 1)
        totalWeight == SumOver(FactorNames, w, 1)
    IN  IF RGt(totalWeight, Zero) THEN RDiv(weightedSum, totalWeight) ELSE Zero

-----------------------------------------------------------------------------
(* AdvancedRelevanceScorer: metadata, results, sort                        *)

\* the last row of the execution with this metric_type, as <<value>>, or <<>>:
\* the loop of getEnhancedMetadata lets a later row overwrite an earlier one
LastMetric(d, id, type) ==
    LET rows == SelectSeq(d.performance_metrics,
                          LAMBDA r : r.execution_id = id /\ r.metric_type = type)
    IN  IF rows = <<>> THEN <<>> ELSE <<rows[Len(rows)].metric_value>>

NoMetadata ==
    [tags |-> <<>>, category |-> <<>>, priority |-> <<>>, complexity |-> <<>>,
     confidence |-> <<>>]

\* getEnhancedMetadata with its try/catch taken away: the error reaches
\* scoreResults
getEnhancedMetadata_NoCatch(d, open, executionId) ==
    LET tagRows == SelectSeq(d.performance_metrics,
                             LAMBDA r : r.execution_id = executionId /\ r.metric_type = "tags")
    IN  [raised |-> ~open \/ \E i \in 1..Len(tagRows) : JsonParseRaises(tagRows[i].metric_value),
         metadata |-> NoMetadata]

\* getEnhancedMetadata: any error (no connection, a tags value that is no
\* JSON) is caught and gives the empty metadata; the call itself never raises
getEnhancedMetadata(d, open, executionId) ==
    LET tagRows == SelectSeq(d.performance_metrics,
                             LAMBDA r : r.execution_id = executionId /\ r.metric_type = "tags")
    IN  IF ~open THEN [raised |-> FALSE, metadata |-> NoMetadata]
        ELSE IF \E i \in 1..Len(tagRows) : JsonParseRaises(tagRows[i].metric_value)
        THEN [raised |-> FALSE, metadata |-> NoMetadata]
        ELSE [raised |-> FALSE,
              metadata |->
                [tags |-> IF tagRows = <<>> THEN <<>>
                          ELSE <<tagRows[Len(tagRows)].metric_value.list>>,
                 category |-> LastMetric(d, executionId, "category"),
                 priority |-> LastMetric(d, executionId, "priority"),
                 complexity |-> LastMetric(d, executionId, "complexity"),
                 confidence |-> LastMetric(d, executionId, "confidence")]]

\* a metric value used as the left side of `value || fallback`
TruthyMetric(o) ==
    /\ o # <<>>
    /\ \/ o[1].kind = "num" /\ Truthy(o[1].num)
       \/ o[1].kind # "num" /\ (o[1].kind # "text" \/ o[1].txt # <<>>)

OrDefault(o, fallback) == IF TruthyMetric(o) THEN o[1] ELSE fallback

\* ---- ExecutionContextManager.getExecutionContext ----

\* the context built from the rows of execution: new Map(metrics) keeps the
\* last row of a metric_type; the detailed_action rows of one execution are
\* written in the order of the actions with a clock that does not go back,
\* so ORDER BY created_at gives them in the order of the table
ReadContext(d, execution) ==
    LET id == execution.id
        links == SelectSeq(d.memory_links,
                           LAMBDA r : r.execution_id = id /\ r.context_type = "detailed_action")
        tags == LastMetric(d, id, "tags")
    IN  [id |-> id,
         sessionId |-> OrDefault(LastMetric(d, id, "session_id"), TextToMetric(TxtUnknown)),
         timestamp |-> execution.timestamp,
         prompt |-> execution.prompt,
         reasoning |-> execution.reasoning,
         actions |-> [i \in 1..Len(links) |-> links[i].context_data.action[1]],
         outcome |-> execution.outcome,
         success |-> execution.success,
         duration |-> execution.duration_ms,
         tags |-> IF TruthyMetric(tags) THEN tags[1].list ELSE <<>>,
         priority |-> OrDefault(LastMetric(d, id, "priority"), TextToMetric(TxtMedium)),
         category |-> OrDefault(LastMetric(d, id, "category"), TextToMetric(TxtGeneral)),
         complexity |-> parseInt(OrDefault(LastMetric(d, id, "complexity"), NumToMetric(R(5, 1)))),
         confidence |-> parseFloat(OrDefault(LastMetric(d, id, "confidence"), NumToMetric(Half)))]

\* getExecutionContext(executionId): null (<<>>) when there is no such
\* execution; JSON.parse of a tags value that is no JSON raises and the error
\* is thrown on
getExecutionContextCall(d, executionId) ==
    LET found == SelectSeq(d.executions, LAMBDA e : e.id = executionId)
        tags == LastMetric(d, executionId, "tags")
    IN  IF found = <<>> THEN [raised |-> FALSE, context |-> <<>>]
        ELSE IF TruthyMetric(tags) /\ JsonParseRaises(tags[1])
        THEN [raised |-> TRUE, context |-> <<>>]
        ELSE [raised |-> FALSE, context |-> <<ReadContext(d, found[1])>>]

\* generateSummary
generateSummary(result) ==
    IF Len(result.prompt) > 50
    THEN Substring(result.prompt, 0, 47) \o <<".", ".", ".">>
    ELSE result.prompt

\* the ScoredResult pushed for one candidate
ScoredResult(result, factors, relevanceScore, md) ==
    [executionId |-> result.id,
     relevanceScore |-> relevanceScore,
     factors |-> factors,
     contextType |-> IF result.success THEN "solution" ELSE "error",
     timestamp |-> result.timestamp,
     summary |-> generateSummary(result),
     prompt |-> result.prompt,
     outcome |-> result.outcome,
     reasoning |-> result.reasoning,
     tags |-> IF md.tags # <<>> THEN md.tags[1] ELSE <<>>,
     category |-> OrDefault(md.category, TextToMetric(TxtGeneral)),
     priority |-> OrDefault(md.priority, TextToMetric(TxtMedium)),
     complexity |-> OrDefault(md.complexity, NumToMetric(R(5, 1))),
     confidence |-> OrDefault(md.confidence, NumToMetric(Half))]

\* the comparator (a, b) => b.relevanceScore - a.relevanceScore gives a
\* negative number; a NaN difference counts as 0
CompareNegative(a, b) == RLt(b.relevanceScore, a.relevanceScore)

\* Array.prototype.sort of V8 for fewer than 64 elements: the leading run is
\* found (a strictly descending one is reversed), the rest is inserted by
\* binary insertion
RECURSIVE RunLength(_, _, _)
RunLength(a, idx, isDescending) ==
    IF idx > Len(a) THEN idx - 1
    ELSE IF isDescending = CompareNegative(a[idx], a[idx - 1])
         THEN RunLength(a, idx + 1, isDescending)
         ELSE idx - 1

Reverse(a) == [i \in 1..Len(a) |-> a[Len(a) + 1 - i]]

CountAndMakeRun(a) ==
    LET isDescending == CompareNegative(a[2], a[1])
        run == RunLength(a, 3, isDescending)
    IN  [run |-> run,
         arr |-> IF isDescending
                 THEN Reverse(SubSeq(a, 1, run)) \o SubSeq(a, run + 1, Len(a))
                 ELSE a]

RECURSIVE BinarySearch(_, _, _, _)
BinarySearch(a, pivot, left, right) ==
    IF left >= right THEN left
    ELSE LET mid == left + ((right - left) \div 2)
         IN  IF CompareNegative(pivot, a[mid + 1])
             THEN BinarySearch(a, pivot, left, mid)
             ELSE BinarySearch(a, pivot, mid + 1, right)

\* a[start + 1] (0-based index start) is inserted into the sorted a[1..start]
RECURSIVE BinaryInsertionSort(_, _)
BinaryInsertionSort(a, start) ==
    IF start >= Len(a) THEN a
    ELSE LET pivot == a[start + 1]
             left == BinarySearch(a, pivot, 0, start)
         IN  BinaryInsertionSort(
                 SubSeq(a, 1, left) \o <<pivot>> \o SubSeq(a, left + 1, start)
                     \o SubSeq(a, start + 2, Len(a)),
                 start + 1)

\* a sort that does not keep the order of equal elements: it starts from the
\* reversed array
SortByRelevance_Unstable(a) ==
    IF Len(a) < 2 THEN a
    ELSE LET r == CountAndMakeRun(Reverse(a)) IN BinaryInsertionSort(r.arr, r.run)

\* scoredResults.sort((a, b) => b.relevanceScore - a.relevanceScore)
SortByRelevance(a) ==
    IF Len(a) < 2 THEN a
    ELSE LET r == CountAndMakeRun(a) IN BinaryInsertionSort(r.arr, r.run)

\* a scorer that refuses a weight map whose sum is not 1
ScoreOne_RejectsIncoherentWeights(d, open, t, w, query, result) ==
    LET factors == calculateAllFactors(d, open, t, query, result)
        relevanceScore == calculateWeightedScore(factors, w)
        em == getEnhancedMetadata(d, open, result.id)
    IN  [raised |-> em.raised \/ SumOver(FactorNames, w, 1) # One,
         scored |-> ScoredResult(result, factors, relevanceScore, em.metadata)]

\* one turn of the loop of scoreResults: the factors, the weighted score and
\* the metadata of one candidate
ScoreOne(d, open, t, w, query, result) ==
    LET factors == calculateAllFactors(d, open, t, query, result)
        relevanceScore == calculateWeightedScore(factors, w)
        em == getEnhancedMetadata(d, open, result.id)
    IN  [raised |-> em.raised,
         scored |-> ScoredResult(result, factors, relevanceScore, em.metadata)]

-----------------------------------------------------------------------------
(* MemoryAnalyticsManager                                                  *)

\* an overview whose success rate is cut to whole percents
getOverviewStats_WholePercent(d) ==
    LET total == Len(d.executions)
        successful == CountSuccess(d.executions)
    IN  [totalExecutions |-> total,
         successfulExecutions |-> successful,
         failedExecutions |-> total - successful,
         successRate |-> IF total > 0 THEN R((100 * successful) \div total, 100) ELSE Zero,
         totalMemoryEntries |-> Len(d.memory_links)]

\* getOverviewStats: COUNT(*), SUM(success = 1) over executions, COUNT(*) over
\* memory_links
getOverviewStats(d) ==
    LET total == Len(d.executions)
        successful == CountSuccess(d.executions)
    IN  [totalExecutions |-> total,
         successfulExecutions |-> successful,
         failedExecutions |-> total - successful,
         successRate |-> IF total > 0 THEN R(successful, total) ELSE Zero,
         totalMemoryEntries |-> Len(d.memory_links)]

\* SELECT pm.metric_value as tags, e.success FROM performance_metrics pm JOIN
\* executions e ON pm.execution_id = e.id WHERE pm.metric_type = 'tags'
TagData(d) ==
    LET rows == SelectSeq(d.performance_metrics,
                          LAMBDA r : r.metric_type = "tags" /\ r.execution_id \in ExecIds(d))
        exec(id) == d.executions[CHOOSE i \in 1..Len(d.executions) : d.executions[i].id = id]
    IN  [i \in 1..Len(rows) |->
            [tags |-> rows[i].metric_value, success |-> exec(rows[i].execution_id).success]]

\* JSON.parse(row.tags) followed by for (const tag of tags) raises unless the
\* value is the JSON text of a list
TagsUnreadable(mv) == mv.kind # "json"

\* the pairs <<tag, success>> the loop counts, in its order
RECURSIVE TagOccurrences(_)
TagOccurrences(tagData) ==
    IF tagData = <<>> THEN <<>>
    ELSE LET row == Head(tagData)
         IN  (IF TagsUnreadable(row.tags) THEN <<>>
              ELSE [k \in 1..Len(row.tags.list) |->
                       [tag |-> row.tags.list[k], success |-> row.success]])
             \o TagOccurrences(Tail(tagData))

\* the keys of tagCounts in the order of their first set()
RECURSIVE FirstOccurrences(_, _)
FirstOccurrences(occ, seen) ==
    IF occ = <<>> THEN <<>>
    ELSE IF Head(occ).tag \in seen THEN FirstOccurrences(Tail(occ), seen)
    ELSE <<Head(occ).tag>> \o FirstOccurrences(Tail(occ), seen \cup {Head(occ).tag})

\* sort((a, b) => b.count - a.count): counts are whole numbers, so the stable
\* order by descending count
RECURSIVE SortByCount(_)
SortByCount(stats) ==
    IF stats = <<>> THEN <<>>
    ELSE LET top == CHOOSE i \in 1..Len(stats) :
                       /\ \A j \in 1..Len(stats) : stats[j].count <= stats[i].count
                       /\ \A j \in 1..(i - 1) : stats[j].count < stats[i].count
         IN  <<stats[top]>>
             \o SortByCount(SubSeq(stats, 1, top - 1) \o SubSeq(stats, top + 1, Len(stats)))

\* tag statistics whose loop has no try/catch around JSON.parse
getTagStatistics_NoCatch(d) ==
    [raised |-> \E i \in 1..Len(TagData(d)) : TagsUnreadable(TagData(d)[i].tags),
     topTags |-> <<>>]

\* getTagStatistics: a row whose tags cannot be read is skipped
getTagStatistics(d) ==
    LET occ == TagOccurrences(TagData(d))
        keys == FirstOccurrences(occ, {})
        stat(tag) ==
            LET count == Len(SelectSeq(occ, LAMBDA o : o.tag = tag))
                successes == Len(SelectSeq(occ, LAMBDA o : o.tag = tag /\ o.success))
            IN  [tag |-> tag, count |-> count,
                 successRate |-> IF count > 0 THEN R(successes, count) ELSE Zero]
        sorted == SortByCount([i \in 1..Len(keys) |-> stat(keys[i])])
    IN  [raised |-> FALSE, topTags |-> SubSeq(sorted, 1, IF Len(sorted) < 10 THEN Len(sorted) ELSE 10)]

\* SELECT DATE(timestamp) as date, COUNT(*) as count ... WHERE timestamp >=
\* datetime('now', '-30 days') GROUP BY DATE(timestamp) ORDER BY date: one row
\* for each day that has an execution
DailyStats(d, t) ==
    LET dates == {d.executions[i].timestamp : i \in {j \in 1..Len(d.executions) :
                                                      d.executions[j].timestamp >= t - 30}}
        count(date) == Cardinality({i \in 1..Len(d.executions) : d.executions[i].timestamp = date})
        ordered[k \in 0..Cardinality(dates)] ==
            IF k = 0 THEN <<>>
            ELSE LET done == {ordered[k - 1][m].date : m \in 1..(k - 1)}
                     next == CHOOSE x \in dates \ done : \A y \in dates \ done : x <= y
                 IN  Append(ordered[k - 1], [date |-> next, count |-> count(next)])
    IN  ordered[Cardinality(dates)]

\* the sum of stat.count over a slice
SumCounts(stats) ==
    LET sum[k \in 0..Len(stats)] == IF k = 0 THEN 0 ELSE sum[k - 1] + stats[k].count
    IN  sum[Len(stats)]

\* calculateGrowthRate: slice(-days) and slice(-days * 2, -days) of the rows
calculateGrowthRate(dailyStats, days) ==
    LET n == Len(dailyStats)
        from == IF n - 2 * days < 0 THEN 0 ELSE n - 2 * days
        recent == SumCounts(SubSeq(dailyStats, n - days + 1, n))
        previous == SumCounts(SubSeq(dailyStats, from + 1, n - days))
    IN  IF n < days THEN Zero
        ELSE IF previous = 0 THEN (IF recent > 0 THEN R(100, 1) ELSE Zero)
        ELSE RMul(R(recent - previous, previous), R(100, 1))

\* getTrendAnalysis: the growth rates
getTrendAnalysis(d, t) ==
    [weeklyGrowth |-> calculateGrowthRate(DailyStats(d, t), 7),
     monthlyGrowth |-> calculateGrowthRate(DailyStats(d, t), 30)]

\* getComprehensiveAnalytics: the overview, the trends and the tag
\* statistics of the pattern analysis; an error of a part is the error of
\* the call
getComprehensiveAnalyticsCall(d, t) ==
    LET tagStats == getTagStatistics(d)
    IN  [raised |-> tagStats.raised,
         overview |-> getOverviewStats(d),
         trends |-> getTrendAnalysis(d, t),
         topTags |-> tagStats.topTags]

-----------------------------------------------------------------------------
(* The calls of the store, as functions of the database d and the clock t  *)

\* an id taken as one more than the largest id now in the table
lastInsertRowid_MaxPlusOne(d) ==
    IF d.executions = <<>> THEN 1
    ELSE 1 + (CHOOSE m \in ExecIds(d) : \A k \in ExecIds(d) : k <= m)

\* result.lastInsertRowid of the INSERT into executions: id is AUTOINCREMENT,
\* one more than the largest id ever given
lastInsertRowid(d) == d.seq + 1

\* storeEnhancedExecution(context): one transaction
storeEnhancedExecutionCall(d, t, ctx, failAt) ==
    LET id == lastInsertRowid(d)
        r == Transaction(d, EnhancedWrites(id, ctx, t + ctx.tsOffset, t), failAt)
    IN  [db |-> r.db, raised |-> r.raised, id |-> IF r.raised THEN 0 ELSE id]

\* storeExecution(execution): the INSERT of the execution, then storeMemoryLinks
storeExecutionCall(d, t, e, failAt) ==
    LET id == lastInsertRowid(d)
        r == Autocommit(d, PlainWrites(id, e, t + e.tsOffset, t), failAt)
    IN  [db |-> r.db, raised |-> r.raised, id |-> IF r.raised THEN 0 ELSE id]

\* the tokens of the full-text index (tokenizer unicode61): runs of letters
\* and digits, in lower case
FtsTokens(t) ==
    LET cleaned == [i \in 1..Len(t) |->
                       IF IsWordChar(t[i]) /\ t[i] # "_" THEN Lower(t[i]) ELSE " "]
    IN  SelectSeq(SplitWS(cleaned), LAMBDA w : w # <<>>)

\* the tokens of an indexed column that may be NULL
FtsColumn(o) == IF o = None THEN {} ELSE Range(FtsTokens(o[1]))

\* executions_fts MATCH ?: the query text is an FTS5 expression; text with
\* no bareword or with punctuation is a syntax error
FtsQueryRaises(query) ==
    \/ FtsTokens(query) = <<>>
    \/ \E i \in 1..Len(query) : ~IsWordChar(query[i]) /\ ~IsSpace(query[i])

\* barewords separated by spaces: every one of them is in some column
FtsMatch(r, query) ==
    Range(FtsTokens(query)) \subseteq
        (Range(FtsTokens(r.prompt)) \cup FtsColumn(r.reasoning) \cup FtsColumn(r.outcome))

\* calculateRelevanceScore of the memory manager: Math.max(0, 1 + rank / 10)
calculateRelevanceScore(rank) == MathMax(Zero, RAdd(One, RDiv(rank, R(10, 1))))

\* ORDER BY rank: the rows by ascending rank, rows of one rank in the order
\* of the table
RECURSIVE OrderByRank(_)
OrderByRank(rows) ==
    IF rows = <<>> THEN <<>>
    ELSE LET top == CHOOSE i \in 1..Len(rows) :
                       /\ \A j \in 1..Len(rows) : RLe(rows[i].rank, rows[j].rank)
                       /\ \A j \in 1..(i - 1) : RLt(rows[i].rank, rows[j].rank)
         IN  <<rows[top]>>
             \o OrderByRank(SubSeq(rows, 1, top - 1) \o SubSeq(rows, top + 1, Len(rows)))

\* FROM executions_fts JOIN executions e ON executions_fts.rowid = e.id WHERE
\* executions_fts MATCH ?
SearchJoin(d, query) ==
    SelectSeq(d.executions, LAMBDA e :
        \E k \in 1..Len(d.executions_fts) :
            d.executions_fts[k].rowid = e.id /\ FtsMatch(d.executions_fts[k], query))

\* a row of the full-text search: the execution joined with its rank
Candidate(row, rank) ==
    [id |-> row.id, rank |-> rank, prompt |-> row.prompt, reasoning |-> row.reasoning,
     outcome |-> row.outcome, success |-> row.success, timestamp |-> row.timestamp]

\* search(query, limit); rankOf gives the bm25 rank of each row
searchCall(d, query, limit, rankOf) ==
    LET joined == SearchJoin(d, query)
        rows == OrderByRank([i \in 1..Len(joined) |-> Candidate(joined[i], rankOf[joined[i].id])])
        limited == SubSeq(rows, 1, IF Len(rows) < limit THEN Len(rows) ELSE limit)
    IN  IF FtsQueryRaises(query) THEN [raised |-> TRUE, results |-> <<>>]
        ELSE [raised |-> FALSE,
              results |-> [i \in 1..Len(limited) |->
                             [executionId |-> limited[i].id,
                              relevanceScore |-> calculateRelevanceScore(limited[i].rank),
                              contextType |-> IF limited[i].success THEN "solution" ELSE "error",
                              timestamp |-> limited[i].timestamp,
                              prompt |-> limited[i].prompt,
                              outcome |-> limited[i].outcome]]]

\* cleanup(retentionDays): cutoffDate = today - retentionDays
cleanupCall(d, t, retentionDays) == DeleteOlderThan(d, t - retentionDays)

\* a delete that finds no orphan
DeleteOrphans_None(rows, d) == rows

\* DELETE FROM <table> WHERE execution_id NOT IN (SELECT id FROM executions)
DeleteOrphans(rows, d) == SelectSeq(rows, LAMBDA r : r.execution_id \in ExecIds(d))

\* the statements of repairDatabase, each committed on its own: the three
\* deletes, the rebuild of the full-text index, VACUUM
RepairStatements ==
    Len(<<"DELETE FROM memory_links", "DELETE FROM performance_metrics",
          "DELETE FROM file_changes", "rebuild", "VACUUM">>)

\* the database after the first k statements of repairDatabase
RepairSteps(d, k) ==
    [d EXCEPT
       !.memory_links = IF k >= 1 THEN DeleteOrphans(@, d) ELSE @,
       !.performance_metrics = IF k >= 2 THEN DeleteOrphans(@, d) ELSE @,
       !.file_changes = IF k >= 3 THEN DeleteOrphans(@, d) ELSE @,
       !.executions_fts = IF k >= 4 THEN [i \in 1..Len(d.executions) |-> FtsRow(d.executions[i])]
                          ELSE @]

Rows(d) == Len(d.memory_links) + Len(d.performance_metrics) + Len(d.file_changes)

\* IntegrityChecker.repairDatabase: getDatabase raises without a connection;
\* an error of statement failAt is caught and reported as passed = false,
\* the statements before it stay
repairDatabaseCall(d, open, failAt) ==
    IF ~open THEN [db |-> d, passed |-> FALSE, totalCleaned |-> 0]
    ELSE IF failAt \in 1..RepairStatements
    THEN [db |-> RepairSteps(d, failAt - 1), passed |-> FALSE,
          totalCleaned |-> Rows(d) - Rows(RepairSteps(d, failAt - 1))]
    ELSE [db |-> RepairSteps(d, RepairStatements), passed |-> TRUE,
          totalCleaned |-> Rows(d) - Rows(RepairSteps(d, RepairStatements))]

-----------------------------------------------------------------------------
(* Bounds and inputs                                                       *)

\* executions ever stored in one run
MaxId == 2
\* steps of the clock in one run
MaxTicks == 2
\* candidates of one scoring pass
MaxCand == 2

\* the decay constant of the recency score; the clock of the model moves in
\* steps of this many days
DecayDays == 30
\* the default of cleanup(retentionDays)
DefaultRetentionDays == 180

RetentionChoices == {0, DecayDays, DefaultRetentionDays}

ActWrite ==
    [type |-> "file_operation", command |-> TxtWrite, status |-> "success",
     sideEffects |-> <<TxtSrcFile>>, retryCount |-> 0, duration |-> 1500,
     sequence |-> 1]

Ctx(prompt, reasoning, outcome, success, tags, priority, category, complexity, confidence, actions, tsOffset, parent) ==
    [prompt |-> prompt, reasoning |-> reasoning, outcome |-> outcome,
     success |-> success, tags |-> tags, priority |-> priority,
     category |-> category, complexity |-> complexity, confidence |-> confidence,
     actions |-> actions, tsOffset |-> tsOffset, parentExecutionId |-> parent,
     duration |-> 1200, memoryUsage |-> 4096, sessionId |-> TxtSession]

\* a successful fix with legal metadata
CtxScenario ==
    Ctx(TxtFixParserBug, Some(TxtParsed), Some(TxtOk), TRUE, <<TxtParser, TxtBug>>,
        TxtHigh, TxtDebugging, R(6, 1), R(8, 10), <<>>, 0, 0)
\* a failure whose complexity and confidence are out of range
CtxOutOfRange ==
    Ctx(TxtBug, None, Some(TxtFailed), FALSE, <<>>,
        TxtMedium, TxtGeneral, R(25, 1), R(3, 2), <<ActWrite>>, 0, 1)
\* complexity and confidence parsed from text that is no number
CtxNaN ==
    Ctx(TxtBug, None, None, TRUE, <<TxtBug>>,
        TxtMedium, TxtGeneral, NaN, NaN, <<>>, 0, 0)
\* a timestamp ahead of the clock, confidence 0
CtxFuture ==
    Ctx(TxtParserBug, Some(TxtEmpty), Some(TxtOk), TRUE, <<TxtParser>>,
        TxtMedium, TxtDebugging, R(1, 1), Zero, <<>>, 2 * DecayDays, 0)

\* the contexts the store is driven with: they differ in their rows (actions,
\* parent, timestamp); CtxNaN has the rows of CtxScenario with other values
EnhancedContexts == {CtxScenario, CtxOutOfRange, CtxFuture}

FileAction ==
    [type |-> "file_operation", command |-> TxtWrite, path |-> Some(TxtSrcFile)]

Exec(prompt, reasoning, outcome, success, actions) ==
    [prompt |-> prompt, reasoning |-> reasoning, outcome |-> outcome,
     success |-> success, actions |-> actions, tsOffset |-> 0, duration |-> 0]

ExecOk == Exec(TxtBug, None, Some(TxtOk), TRUE, <<FileAction>>)
ExecFailed == Exec(TxtFixParserBug, Some(TxtParsed), Some(TxtFailed), FALSE, <<>>)

ExecutionRecords == {ExecOk, ExecFailed}

\* a database file written by an earlier version, kept in the backup
\* directory: one execution whose tags metric is no JSON and whose confidence
\* is out of range
LegacyBackup ==
    LET ws == <<Write("executions", ExecRow(1, 0, TxtParserBug, None, None, TRUE, 0)),
                Write("performance_metrics", MetricRow(1, "tags", MalformedJson, "json", 0)),
                Write("performance_metrics", MetricRow(1, "category", TextToMetric(TxtDebugging), "text", 0)),
                Write("performance_metrics", MetricRow(1, "confidence", NumToMetric(R(-1, 2)), "percentage", 0))>>
    IN  RunWrites(EmptyDB, ws, Len(ws))

Queries == {TxtParserBug, TxtBugBugBug, TxtBuildDb, TxtEmpty}

\* ranks given by the full-text index (bm25: negative)
Ranks == {R(-2, 1), R(-12, 1)}

\* partial weight maps given to updateWeights
WeightUpdates ==
    {[f \in {"ftsScore"} |-> Half],
     [f \in Range(FactorNames) |-> Zero],
     [f \in Range(FactorNames) |-> IF f = "confidenceScore" THEN One ELSE Zero],
     [f \in Range(FactorNames) |-> IF f = "recencyScore" THEN R(-1, 1) ELSE Zero]}

-----------------------------------------------------------------------------
(* The state machine                                                       *)

NoCall == [op |-> "none", raised |-> FALSE, id |-> 0, arg |-> 0]

IdlePass ==
    [pc |-> "idle", query |-> <<>>, rawResults |-> <<>>, i |-> 0,
     scoredResults |-> <<>>, returned |-> <<>>, sawClosed |-> FALSE]

\* a merge that scales the weights back to a sum of 1
MergeWeights_Renormalised(w, newWeights) ==
    LET merged == [f \in Range(FactorNames) |->
                      IF f \in DOMAIN newWeights THEN newWeights[f] ELSE w[f]]
        total == SumOver(FactorNames, merged, 1)
    IN  IF RGt(total, Zero)
        THEN [f \in Range(FactorNames) |-> RDiv(merged[f], total)]
        ELSE merged

\* updateWeights: { ...this.weights, ...newWeights }
MergeWeights(w, newWeights) ==
    [f \in Range(FactorNames) |-> IF f \in DOMAIN newWeights THEN newWeights[f] ELSE w[f]]

\* a search row whose execution has been deleted since the search
GoneCandidate(rank) ==
    Candidate(ExecRow(MaxId + 1, 0, TxtBug, None, None, FALSE, 0), rank)

Candidates(d) ==
    {Candidate(d.executions[i], rank) : i \in 1..Len(d.executions), rank \in Ranks}
    \cup {GoneCandidate(rank) : rank \in Ranks}

\* the lists a search can give: at most n rows, no execution twice
CandidateLists(S, n) ==
    {l \in UNION {[1..k -> S] : k \in 0..n} :
        \A i, j \in 1..Len(l) : i # j => l[i].id # l[j].id}

\* ---- the store ----

storeEnhancedExecution(ctx, failAt) ==
    /\ db.seq < MaxId
    /\ LET r == storeEnhancedExecutionCall(db, now, ctx, failAt)
       IN  /\ db' = r.db
           /\ lastCall' = [op |-> "storeEnhancedExecution", raised |-> r.raised,
                           id |-> r.id, arg |-> ctx]
    /\ dbOpen' = TRUE
    /\ UNCHANGED <<pass2, now, weights, pass>>

storeExecution(e, failAt) ==
    /\ db.seq < MaxId
    /\ LET r == storeExecutionCall(db, now, e, failAt)
       IN  /\ db' = r.db
           /\ lastCall' = [op |-> "storeExecution", raised |-> r.raised,
                           id |-> r.id, arg |-> 0]
    /\ dbOpen' = TRUE
    /\ UNCHANGED <<pass2, now, weights, pass>>

cleanup(retentionDays) ==
    /\ db' = cleanupCall(db, now, retentionDays)
    /\ lastCall' = [op |-> "cleanup", raised |-> FALSE, id |-> 0, arg |-> retentionDays]
    /\ dbOpen' = TRUE
    /\ UNCHANGED <<pass2, now, weights, pass>>

\* DatabaseManager.close
close ==
    /\ dbOpen
    /\ dbOpen' = FALSE
    /\ UNCHANGED <<pass2, db, now, weights, pass, lastCall>>

\* DatabaseManager.initialize
initialize ==
    /\ ~dbOpen
    /\ dbOpen' = TRUE
    /\ UNCHANGED <<pass2, db, now, weights, pass, lastCall>>

\* the wall clock moves on
Tick ==
    /\ now < MaxTicks * DecayDays
    /\ now' = now + DecayDays
    /\ UNCHANGED <<pass2, db, dbOpen, weights, pass, lastCall>>

\* ---- the scorer ----

updateWeights(newWeights) ==
    /\ weights' = MergeWeights(weights, newWeights)
    /\ lastCall' = [op |-> "updateWeights", raised |-> FALSE, id |-> 0, arg |-> newWeights]
    /\ UNCHANGED <<pass2, db, dbOpen, now, pass>>

\* getWeights: a copy of the map
getWeights(w) == [f \in DOMAIN w |-> w[f]]

\* scoreResults is called: the loop has not run yet
scoreResultsBegin(query, rawResults) ==
    /\ pass.pc = "idle"
    /\ pass' = [IdlePass EXCEPT !.pc = "loop", !.query = query,
                                !.rawResults = rawResults, !.i = 1]
    /\ UNCHANGED <<pass2, db, dbOpen, now, weights, lastCall>>

\* a turn that pushes to an array shared by the calls in flight
Turn_SharedArray(p, other) ==
    LET r == ScoreOne(db, dbOpen, now, weights, p.query, p.rawResults[p.i])
    IN  [p EXCEPT !.i = @ + 1,
                  !.scoredResults = other.scoredResults \o @ \o <<r.scored>>,
                  !.sawClosed = @ \/ ~dbOpen]

\* one turn of the loop of the call p while the call other is in flight:
\* scoredResults is a local of the call, so other is not read
Turn(p, other) ==
    LET r == ScoreOne(db, dbOpen, now, weights, p.query, p.rawResults[p.i])
    IN  IF r.raised
        THEN [p EXCEPT !.pc = "raised", !.sawClosed = @ \/ ~dbOpen]
        ELSE [p EXCEPT !.i = @ + 1,
                       !.scoredResults = Append(@, r.scored),
                       !.sawClosed = @ \/ ~dbOpen]

\* one turn of the loop
scoreResultsStep ==
    /\ pass.pc = "loop"
    /\ pass.i <= Len(pass.rawResults)
    /\ pass' = Turn(pass, pass2)
    /\ UNCHANGED <<pass2, db, dbOpen, now, weights, lastCall>>

\* after the loop: the sort and the return
scoreResultsReturn ==
    /\ pass.pc = "loop"
    /\ pass.i > Len(pass.rawResults)
    /\ pass' = [pass EXCEPT !.pc = "returned", !.returned = SortByRelevance(pass.scoredResults)]
    /\ UNCHANGED <<pass2, db, dbOpen, now, weights, lastCall>>

\* the caller has taken the result or the error
scoreResultsDone ==
    /\ pass.pc \in {"returned", "raised"}
    /\ pass' = IdlePass
    /\ UNCHANGED <<pass2, db, dbOpen, now, weights, lastCall>>

\* ---- the store on its own ----

\* the statement that raises: none (0), the first, the second, the last
FailPoints(ws) == {0, 1, 2, Len(ws)}

Init ==
    /\ db = EmptyDB
    /\ dbOpen = FALSE
    /\ now = 0
    /\ weights = DefaultWeights
    /\ pass = IdlePass
    /\ pass2 = IdlePass
    /\ lastCall = NoCall

Next ==
    \/ \E ctx \in EnhancedContexts : \E failAt \in FailPoints(EnhancedWrites(0, ctx, 0, 0)) :
          storeEnhancedExecution(ctx, failAt)
    \/ \E e \in ExecutionRecords : \E failAt \in FailPoints(PlainWrites(0, e, 0, 0)) :
          storeExecution(e, failAt)
    \/ \E retentionDays \in RetentionChoices : cleanup(retentionDays)
    \/ close
    \/ Tick

Spec == Init /\ [][Next]_vars

\* ---- the scorer over stores the calls above have written ----

AfterEnhanced(img, ctx) ==
    [db |-> storeEnhancedExecutionCall(img.db, img.now, ctx, 0).db, now |-> img.now]
AfterPlain(img, e) ==
    [db |-> storeExecutionCall(img.db, img.now, e, 0).db, now |-> img.now]
AfterTick(img) == [db |-> img.db, now |-> img.now + DecayDays]
\* BackupManager.restoreBackup(f): the backup file is copied over the database file
AfterRestore(img, f) == [db |-> f, now |-> img.now]
Fresh == [db |-> EmptyDB, now |-> 0]

StoreImages ==
    {Fresh,
     AfterEnhanced(Fresh, CtxScenario),
     AfterEnhanced(AfterTick(AfterEnhanced(Fresh, CtxScenario)), CtxOutOfRange),
     AfterEnhanced(AfterEnhanced(Fresh, CtxNaN), CtxScenario),
     AfterTick(AfterEnhanced(AfterPlain(Fresh, ExecOk), CtxFuture)),
     AfterPlain(AfterRestore(AfterTick(Fresh), LegacyBackup), ExecFailed)}

ScoreInit ==
    /\ \E img \in StoreImages : db = img.db /\ now = img.now
    /\ dbOpen = TRUE
    /\ weights = DefaultWeights
    /\ pass = IdlePass
    /\ pass2 = IdlePass
    /\ lastCall = NoCall

\* one caller, the connection open: it awaits scoreResults before its next
\* call
ScoreNext ==
    \/ \E query \in Queries : \E rawResults \in CandidateLists(Candidates(db), MaxCand) :
          scoreResultsBegin(query, rawResults)
    \/ scoreResultsStep
    \/ scoreResultsReturn
    \/ scoreResultsDone
    \/ pass.pc = "idle" /\ \E newWeights \in WeightUpdates : updateWeights(newWeights)

ScoreSpec == ScoreInit /\ [][ScoreNext]_vars

\* ---- the scorer while the connection is closed and opened ----

ClosedNext ==
    \/ \E query \in Queries : \E rawResults \in CandidateLists(Candidates(db), MaxCand) :
          scoreResultsBegin(query, rawResults)
    \/ scoreResultsStep
    \/ scoreResultsReturn
    \/ scoreResultsDone
    \/ pass.pc = "idle" /\ close
    \/ pass.pc = "idle" /\ initialize

ClosedSpec == ScoreInit /\ [][ClosedNext]_vars

\* ---- a scoring pass with weight updates between its await points ----

\* The awaits of one turn of the loop (calculateAllFactors, getEnhancedMetadata)
\* read only the store; this.weights is read once per turn, synchronously, by
\* calculateWeightedScore.  With the store unchanged, an update landing at
\* any await of a turn has the effect of one landing before or after the
\* turn, so a turn is one step.

\* updates that keep every weight in [0,1)
RaceUpdates ==
    {u \in WeightUpdates : \A f \in DOMAIN u : RGe(u[f], Zero) /\ RLt(u[f], One)}

\* the rows of a search that gave every row the same rank
RaceCandidates(d) == {c \in Candidates(d) : c.rank = R(-2, 1)}

RaceImages ==
    {AfterEnhanced(AfterTick(AfterEnhanced(Fresh, CtxScenario)), CtxOutOfRange),
     AfterEnhanced(AfterEnhanced(Fresh, CtxNaN), CtxScenario)}

RaceInit ==
    /\ \E img \in RaceImages : db = img.db /\ now = img.now
    /\ dbOpen = TRUE
    /\ weights = DefaultWeights
    /\ pass = IdlePass
    /\ pass2 = IdlePass
    /\ lastCall = NoCall

RaceNext ==
    \/ \E rawResults \in CandidateLists(RaceCandidates(db), MaxCand) :
          scoreResultsBegin(TxtParserBug, rawResults)
    \/ scoreResultsStep
    \/ scoreResultsReturn
    \/ scoreResultsDone
    \/ \E newWeights \in RaceUpdates : updateWeights(newWeights)

\* a turn of the loop is pending
scoreResultsStepEnabled == pass.pc = "loop" /\ pass.i <= Len(pass.rawResults)

\* The continuation of an await is a microtask: it always gets to run.  Weak
\* fairness of scoreResultsStep is written with its ENABLED spelled out: a
\* pending turn always changes pass.
RaceSpec ==
    /\ RaceInit
    /\ [][RaceNext]_vars
    /\ WF_vars(scoreResultsReturn)
    /\ ([]<>(~scoreResultsStepEnabled) \/ []<><<scoreResultsStep>>_vars)

\* ---- two scoring passes in flight on one scorer ----

\* scoreResults run from its first line to its return with nothing in between
scoreResultsCall(d, open, t, w, query, rawResults) ==
    SortByRelevance([i \in 1..Len(rawResults) |->
                        ScoreOne(d, open, t, w, query, rawResults[i]).scored])

\* the second call: the same code over its own locals
scoreResults2Begin(query, rawResults) ==
    /\ pass2.pc = "idle"
    /\ pass2' = [IdlePass EXCEPT !.pc = "loop", !.query = query,
                                 !.rawResults = rawResults, !.i = 1]
    /\ UNCHANGED <<pass, db, dbOpen, now, weights, lastCall>>

scoreResults2Step ==
    /\ pass2.pc = "loop"
    /\ pass2.i <= Len(pass2.rawResults)
    /\ pass2' = Turn(pass2, pass)
    /\ UNCHANGED <<pass, db, dbOpen, now, weights, lastCall>>

scoreResults2Return ==
    /\ pass2.pc = "loop"
    /\ pass2.i > Len(pass2.rawResults)
    /\ pass2' = [pass2 EXCEPT !.pc = "returned",
                              !.returned = SortByRelevance(pass2.scoredResults)]
    /\ UNCHANGED <<pass, db, dbOpen, now, weights, lastCall>>

scoreResults2Done ==
    /\ pass2.pc \in {"returned", "raised"}
    /\ pass2' = IdlePass
    /\ UNCHANGED <<pass, db, dbOpen, now, weights, lastCall>>

PairInit ==
    /\ LET img == AfterEnhanced(AfterTick(AfterEnhanced(Fresh, CtxScenario)), CtxOutOfRange)
       IN  db = img.db /\ now = img.now
    /\ dbOpen = TRUE
    /\ weights = DefaultWeights
    /\ pass = IdlePass
    /\ pass2 = IdlePass
    /\ lastCall = NoCall

\* two query requests, each with its own query; the store and the weights
\* stay as they are
PairNext ==
    \/ \E rawResults \in CandidateLists(RaceCandidates(db), MaxCand) :
          scoreResultsBegin(TxtParserBug, rawResults)
    \/ scoreResultsStep
    \/ scoreResultsReturn
    \/ scoreResultsDone
    \/ \E rawResults \in CandidateLists(RaceCandidates(db), MaxCand) :
          scoreResults2Begin(TxtBugBugBug, rawResults)
    \/ scoreResults2Step
    \/ scoreResults2Return
    \/ scoreResults2Done

PairSpec == PairInit /\ [][PairNext]_vars

\* ---- the analytics over stores the calls above have written ----

getComprehensiveAnalytics ==
    /\ lastCall' = [op |-> "getComprehensiveAnalytics",
                    raised |-> getComprehensiveAnalyticsCall(db, now).raised,
                    id |-> 0, arg |-> getComprehensiveAnalyticsCall(db, now)]
    /\ dbOpen' = TRUE
    /\ UNCHANGED <<db, now, weights, pass, pass2>>

AnalyticsImages ==
    {Fresh,
     AfterPlain(AfterEnhanced(AfterEnhanced(Fresh, CtxScenario), CtxNaN), ExecFailed),
     AfterEnhanced(AfterEnhanced(Fresh, CtxScenario), CtxOutOfRange),
     AfterEnhanced(AfterRestore(AfterTick(Fresh), LegacyBackup), CtxScenario)}

AnalyticsInit ==
    /\ \E img \in AnalyticsImages : db = img.db /\ now = img.now
    /\ dbOpen = TRUE
    /\ weights = DefaultWeights
    /\ pass = IdlePass
    /\ pass2 = IdlePass
    /\ lastCall = NoCall

AnalyticsNext ==
    \/ getComprehensiveAnalytics
    \/ \E e \in ExecutionRecords : \E failAt \in FailPoints(PlainWrites(0, e, 0, 0)) :
          storeExecution(e, failAt)
    \/ \E retentionDays \in RetentionChoices : cleanup(retentionDays)
    \/ Tick

AnalyticsSpec == AnalyticsInit /\ [][AnalyticsNext]_vars

\* ---- jaccardSimilarity over the token lists of tokenize ----

\* the texts that are tokenized: repeated words, punctuation, words of one
\* and two letters, no word at all
TokenTexts ==
    {TxtFixParserBug, TxtBug, TxtParserBug, TxtBugBugBug, TxtBuildDb, TxtParser,
     TxtDebugging, TxtGeneral, TxtOk, TxtSrcFile, TxtEmpty}

jaccardSimilarityCall(text1, text2) ==
    /\ lastCall' = [op |-> "jaccardSimilarity", raised |-> FALSE, id |-> 0,
                    arg |-> [text1 |-> text1, text2 |-> text2,
                             set1 |-> tokenize(text1), set2 |-> tokenize(text2),
                             similarity |-> jaccardSimilarity(tokenize(text1), tokenize(text2))]]
    /\ UNCHANGED <<pass2, db, dbOpen, now, weights, pass>>

JaccardInit ==
    /\ db = EmptyDB
    /\ dbOpen = TRUE
    /\ now = 0
    /\ weights = DefaultWeights
    /\ pass = IdlePass
    /\ pass2 = IdlePass
    /\ lastCall = NoCall

JaccardNext == \E text1 \in TokenTexts : \E text2 \in TokenTexts : jaccardSimilarityCall(text1, text2)

JaccardSpec == JaccardInit /\ [][JaccardNext]_vars

\* ---- the repair of a restored database file ----

\* a database file on which execution 1 was deleted while the foreign keys
\* were not enforced: its rows are left in the three child tables, beside
\* the rows of execution 2
OrphanBackup ==
    LET ws == <<Write("executions", ExecRow(2, 0, TxtParserBug, None, Some(TxtOk), TRUE, 0)),
                Write("performance_metrics", MetricRow(1, "category", TextToMetric(TxtGeneral), "text", 0)),
                Write("performance_metrics", MetricRow(2, "category", TextToMetric(TxtDebugging), "text", 0)),
                Write("memory_links", LinkRow(1, "outcome", TxtOk, ContextData(<<>>, <<>>, <<>>), One, 0)),
                Write("memory_links", LinkRow(2, "outcome", TxtOk, ContextData(<<>>, <<>>, <<>>), One, 0)),
                Write("file_changes", FileChangeRow(1, TxtSrcFile, "update", 0)),
                Write("file_changes", FileChangeRow(2, TxtSrcFile, "create", 0))>>
    IN  RunWrites(EmptyDB, ws, Len(ws))

\* a file whose executions are all gone: orphans only
OrphansOnlyBackup ==
    LET ws == <<Write("performance_metrics", MetricRow(1, "tags", MalformedJson, "json", 0)),
                Write("file_changes", FileChangeRow(1, TxtSrcFile, "delete", 0))>>
    IN  [RunWrites(EmptyDB, ws, Len(ws)) EXCEPT !.seq = 1]

BackupFiles == {LegacyBackup, OrphanBackup, OrphansOnlyBackup}

\* calculateChecksum: the sha256 digest of a file; two files have the same
\* digest only when they have the same content, so the digest is modelled by
\* the content
calculateChecksum(content) == content

\* a file of the backup directory: the database it holds and the checksum of
\* its .meta.json (<<>>: no metadata file)
BackupFile(content, metadata) == [exists |-> TRUE, content |-> content, metadata |-> metadata]

\* a filename with no file
MissingBackup == [exists |-> FALSE, content |-> EmptyDB, metadata |-> <<>>]

\* createBackup: the database file is copied and its checksum is written to
\* the metadata file
createBackupCall(d) == BackupFile(d, <<calculateChecksum(d)>>)

\* the steps of restoreBackup that can raise after the connection is closed:
\* the copy of the live file to pre-restore-<ts>.db, the copy of the backup
\* over the live file, DatabaseManager.initialize
RestoreSteps == Len(<<"fs.copy(currentDbPath, preRestoreBackup)", "fs.copy(backupPath, currentDbPath)", "initialize">>)

\* restoreBackup(backupFilename): raises when the file is missing or its
\* checksum is not the one of its metadata; then the connection is closed,
\* the live file is copied to the backup directory, the backup is copied
\* over the live file and the connection is opened.  The catch logs and
\* throws on: a step that raises (failAt) leaves the connection closed, and
\* a copy over the live file that raises leaves what it has written
\* (partial)
restoreBackupCall(d, open, file, failAt, partial) ==
    IF ~file.exists
    THEN [db |-> d, open |-> open, raised |-> TRUE, preRestore |-> <<>>]
    ELSE IF file.metadata # <<>> /\ file.metadata[1] # calculateChecksum(file.content)
    THEN [db |-> d, open |-> open, raised |-> TRUE, preRestore |-> <<>>]
    ELSE IF failAt = 1
    THEN [db |-> d, open |-> FALSE, raised |-> TRUE, preRestore |-> <<>>]
    ELSE IF failAt = 2
    THEN [db |-> partial, open |-> FALSE, raised |-> TRUE, preRestore |-> <<d>>]
    ELSE IF failAt = 3
    THEN [db |-> file.content, open |-> FALSE, raised |-> TRUE, preRestore |-> <<d>>]
    ELSE [db |-> file.content, open |-> TRUE, raised |-> FALSE, preRestore |-> <<d>>]

\* the live file after a copy over it that raised: nothing written, cut to
\* no bytes, or written whole
PartialCopies(d, file) == {d, EmptyDB, file.content}

\* arg keeps the file, the live content before the call and the pre-restore
\* copy written to the backup directory
restoreBackup(file, failAt, partial) ==
    /\ LET r == restoreBackupCall(db, dbOpen, file, failAt, partial)
       IN  /\ db' = r.db
           /\ dbOpen' = r.open
           /\ lastCall' = [op |-> "restoreBackup", raised |-> r.raised, id |-> 0,
                           arg |-> [file |-> file, before |-> db, preRestore |-> r.preRestore]]
    /\ UNCHANGED <<pass2, now, weights, pass>>

repairDatabase(failAt) ==
    /\ LET r == repairDatabaseCall(db, dbOpen, failAt)
       IN  /\ db' = r.db
           /\ lastCall' = [op |-> "repairDatabase", raised |-> FALSE, id |-> 0,
                           arg |-> [passed |-> r.passed, totalCleaned |-> r.totalCleaned]]
    /\ UNCHANGED <<pass2, dbOpen, now, weights, pass>>

RepairInit ==
    /\ db = EmptyDB
    /\ dbOpen = TRUE
    /\ now = 0
    /\ weights = DefaultWeights
    /\ pass = IdlePass
    /\ pass2 = IdlePass
    /\ lastCall = NoCall

RepairNext ==
    \/ \E f \in BackupFiles : restoreBackup(BackupFile(f, <<>>), 0, f)
    \/ \E failAt \in 0..RepairStatements : repairDatabase(failAt)
    \/ \E e \in ExecutionRecords : \E failAt \in FailPoints(PlainWrites(0, e, 0, 0)) :
          storeExecution(e, failAt)
    \/ \E retentionDays \in RetentionChoices : cleanup(retentionDays)
    \/ close
    \/ Tick

RepairSpec == RepairInit /\ [][RepairNext]_vars

\* ---- restores that raise ----

\* the files restored: backups with their metadata, a backup without
\* metadata, a backup changed after its metadata was written, no file
RestoreFiles ==
    {createBackupCall(LegacyBackup), createBackupCall(OrphanBackup),
     BackupFile(OrphansOnlyBackup, <<>>),
     BackupFile(OrphanBackup, <<calculateChecksum(LegacyBackup)>>),
     MissingBackup}

RestoreNext ==
    \/ \E file \in RestoreFiles : \E failAt \in 0..RestoreSteps :
          \E partial \in PartialCopies(db, file) : restoreBackup(file, failAt, partial)
    \/ \E e \in ExecutionRecords : \E failAt \in FailPoints(PlainWrites(0, e, 0, 0)) :
          storeExecution(e, failAt)
    \/ \E retentionDays \in RetentionChoices : cleanup(retentionDays)
    \/ Tick

RestoreSpec == RepairInit /\ [][RestoreNext]_vars

\* ---- the success factor over stores with more prompts than its LIMIT ----

\* the LIMIT of the query of calculateSuccessScore
RecentLimit == 10

\* the rows the statements ws leave in a table
TableRows(ws, table) ==
    LET sel == SelectSeq(ws, LAMBDA w : w.table = table)
    IN  [k \in 1..Len(sel) |-> sel[k].row]

\* the store after a failed storeExecution-ed execution and then n successful
\* ones, a clock step between two calls
StoredOverTime(n) ==
    LET ws == FlattenSeq([i \in 1..(n + 1) |->
                  PlainWrites(i, IF i = 1 THEN ExecFailed ELSE ExecOk,
                              (i - 1) * DecayDays, (i - 1) * DecayDays)])
    IN  [db |-> [executions |-> TableRows(ws, "executions"),
                 performance_metrics |-> TableRows(ws, "performance_metrics"),
                 memory_links |-> TableRows(ws, "memory_links"),
                 file_changes |-> TableRows(ws, "file_changes"),
                 executions_fts |-> [k \in 1..(n + 1) |-> FtsRow(TableRows(ws, "executions")[k])],
                 seq |-> n + 1],
         now |-> n * DecayDays]

SuccessImages == {Fresh, StoredOverTime(1), StoredOverTime(RecentLimit)}

calculateSuccessScoreCall(result) ==
    /\ lastCall' = [op |-> "calculateSuccessScore", raised |-> FALSE, id |-> result.id,
                    arg |-> [result |-> result,
                             score |-> calculateSuccessScore(db, dbOpen, result)]]
    /\ UNCHANGED <<pass2, db, dbOpen, now, weights, pass>>

SuccessInit ==
    /\ \E img \in SuccessImages : db = img.db /\ now = img.now
    /\ dbOpen = TRUE
    /\ weights = DefaultWeights
    /\ pass = IdlePass
    /\ pass2 = IdlePass
    /\ lastCall = NoCall

SuccessNext ==
    \/ \E result \in RaceCandidates(db) : calculateSuccessScoreCall(result)
    \/ \E e \in ExecutionRecords : \E failAt \in FailPoints(PlainWrites(0, e, 0, 0)) :
          storeExecution(e, failAt)
    \/ Tick

SuccessSpec == SuccessInit /\ [][SuccessNext]_vars

\* ---- the full-text search over the store ----

\* the texts searched for: one word, two words, a prompt with its full stop
SearchQueries == {TxtBug, TxtParserBug, TxtFixParserBug}

\* the limits of a search: one row, the default
SearchLimits == {1, RecentLimit}

search(query, limit, rankOf) ==
    /\ LET r == searchCall(db, query, limit, rankOf)
       IN  lastCall' = [op |-> "search", raised |-> r.raised, id |-> 0,
                        arg |-> [query |-> query, limit |-> limit, results |-> r.results]]
    /\ dbOpen' = TRUE
    /\ UNCHANGED <<pass2, db, now, weights, pass>>

\* the executions the join gives for a query: bm25 ranks these rows only
MatchedIds(d, query) == {e.id : e \in Range(SearchJoin(d, query))}

\* a store goes through or raises at its first statement, the INSERT of the
\* execution: the rows of memory_links are not read by the search
SearchNext ==
    \/ \E query \in SearchQueries : \E limit \in SearchLimits :
          \E rankOf \in [MatchedIds(db, query) -> Ranks] : search(query, limit, rankOf)
    \/ \E e \in ExecutionRecords : \E failAt \in 0..1 : storeExecution(e, failAt)
    \/ \E retentionDays \in RetentionChoices : cleanup(retentionDays)
    \/ Tick

SearchSpec == Init /\ [][SearchNext]_vars

\* ---- the enhanced store read back ----

\* getExecutionContext called by the caller of the store: when its last call
\* was the store that returned executionId, stored is the context it gave
getExecutionContext(executionId) ==
    /\ LET r == getExecutionContextCall(db, executionId)
       IN  lastCall' = [op |-> "getExecutionContext", raised |-> r.raised, id |-> executionId,
                        arg |-> [context |-> r.context,
                                 stored |-> IF /\ lastCall.op = "storeEnhancedExecution"
                                               /\ ~lastCall.raised
                                               /\ lastCall.id = executionId
                                            THEN <<lastCall.arg>> ELSE <<>>]]
    /\ dbOpen' = TRUE
    /\ UNCHANGED <<pass2, db, now, weights, pass>>

ContextNext ==
    \/ \E ctx \in EnhancedContexts : \E failAt \in FailPoints(EnhancedWrites(0, ctx, 0, 0)) :
          storeEnhancedExecution(ctx, failAt)
    \/ \E executionId \in 1..MaxId : getExecutionContext(executionId)
    \/ \E retentionDays \in RetentionChoices : cleanup(retentionDays)
    \/ Tick

ContextSpec == Init /\ [][ContextNext]_vars

-----------------------------------------------------------------------------
(* The ranked list: claims C1 to C5                                        *)

\* the sum of the weights of the scorer
TotalWeight(w) == SumOver(FactorNames, w, 1)

\* the rows of performance_metrics of execution id with this metric_type
MetricsOf(id, type) ==
    SelectSeq(db.performance_metrics,
              LAMBDA r : r.execution_id = id /\ r.metric_type = type)

\* C1: for every query and every candidate list, the list scoreResults
\* returns is sorted non-increasing by relevanceScore: each result's
\* relevanceScore is >= the relevanceScore of the result that follows it.
C1_SortedNonIncreasing ==
    pass.pc = "returned" =>
        \A i \in 1..(Len(pass.returned) - 1) :
            RGe(pass.returned[i].relevanceScore, pass.returned[i + 1].relevanceScore)

\* C2: for every weight map whose weights sum to 1 and every single
\* candidate, the relevanceScore scoreResults returns lies in [0,1].
C2_ScoreInUnit ==
    (pass.pc = "returned" /\ Len(pass.returned) = 1 /\ TotalWeight(weights) = One)
        => InUnit(pass.returned[1].relevanceScore)

\* C3: for every candidate, each of the eight factor scores lies in [0,1],
\* also when the stored confidence or complexity is outside its legal range.
C3_FactorsInUnit ==
    \A i \in 1..Len(pass.scoredResults) :
        \A f \in Range(FactorNames) : InUnit(pass.scoredResults[i].factors[f])

\* C4: scoreResults never raises for enrichment failures and returns exactly
\* one ScoredResult per input candidate, carrying that candidate's id and
\* prompt, also for candidates with no stored execution, no metrics or a
\* malformed tags metric; an empty candidate list yields an empty list.
C4_OneResultPerCandidate ==
    /\ pass.pc # "raised"
    /\ \A i \in 1..Len(pass.scoredResults) :
          /\ pass.scoredResults[i].executionId = pass.rawResults[i].id
          /\ pass.scoredResults[i].prompt = pass.rawResults[i].prompt
    /\ pass.pc = "returned" =>
          /\ Len(pass.returned) = Len(pass.rawResults)
          /\ \A i \in 1..Len(pass.rawResults) :
                \E j \in 1..Len(pass.returned) :
                    /\ pass.returned[j].executionId = pass.rawResults[i].id
                    /\ pass.returned[j].prompt = pass.rawResults[i].prompt

\* a returned list of two: one candidate's tags metric is no JSON, the other
\* candidate has no stored execution
C4_Witness ==
    /\ pass.pc = "returned"
    /\ Len(pass.returned) = 2
    /\ \E i, j \in 1..2 :
          /\ \E k \in 1..Len(MetricsOf(pass.rawResults[i].id, "tags")) :
                JsonParseRaises(MetricsOf(pass.rawResults[i].id, "tags")[k].metric_value)
          /\ pass.rawResults[j].id \notin ExecIds(db)

\* C5: when no connection is open while a scoring pass runs, scoreResults
\* raises; it does not return a ranked list.
C5_UnavailableStoreRaises ==
    pass.pc = "returned" => ~pass.sawClosed

-----------------------------------------------------------------------------
(* The weights: claims C9 and C10                                          *)

\* C9: updateWeights(partial) sets every key of partial to the value given
\* and leaves every other weight as it was, without renormalising;
\* getWeights() afterwards returns the merged map.
C9_UpdateWeightsMerges ==
    [][lastCall'.op = "updateWeights" =>
          LET partial == lastCall'.arg
          IN  /\ \A f \in DOMAIN partial : getWeights(weights')[f] = partial[f]
              /\ (weights' # weights) =>
                    \A f \in Range(FactorNames) \ DOMAIN partial :
                        getWeights(weights')[f] = weights[f]]_vars

\* after updateWeights({ftsScore: 0.5}) on the default weights: ftsScore is
\* 0.5, the others are the defaults, the sum is no longer 1
C9_Witness ==
    /\ lastCall.op = "updateWeights"
    /\ DOMAIN lastCall.arg = {"ftsScore"}
    /\ weights["ftsScore"] = Half
    /\ \A f \in Range(FactorNames) \ {"ftsScore"} : weights[f] = DefaultWeights[f]
    /\ TotalWeight(weights) # One

\* C10: after any sequence of updateWeights calls the combined score of a
\* candidate is the sum of factor x weight divided by the sum of the weights
\* when that sum is > 0, and 0 when it is <= 0.
C10_CombinedScore ==
    \A i \in 1..Len(pass.scoredResults) :
        LET s == pass.scoredResults[i]
            products == [f \in Range(FactorNames) |-> RMul(s.factors[f], weights[f])]
        IN  IF RGt(TotalWeight(weights), Zero)
            THEN s.relevanceScore = RDiv(SumOver(FactorNames, products, 1), TotalWeight(weights))
            ELSE s.relevanceScore = Zero

\* a candidate scored after updateWeights made the sum of the weights
\* negative, with a factor that is not 0
C10_Witness ==
    /\ lastCall.op = "updateWeights"
    /\ RLt(TotalWeight(weights), Zero)
    /\ Len(pass.scoredResults) > 0
    /\ pass.scoredResults[1].relevanceScore = Zero
    /\ RGt(pass.scoredResults[1].factors["recencyScore"], Zero)

-----------------------------------------------------------------------------
(* The store: claims C6 to C8                                              *)

\* C6: storing an execution is all-or-nothing: when an insert of one
\* storeExecution or storeEnhancedExecution call fails, the call raises and
\* the executions, performance_metrics and memory_links tables are as they
\* were before the call.
C6_StoreAllOrNothing ==
    [][(lastCall'.op \in {"storeExecution", "storeEnhancedExecution"} /\ lastCall'.raised)
          => /\ db'.executions = db.executions
             /\ db'.performance_metrics = db.performance_metrics
             /\ db'.memory_links = db.memory_links]_vars

\* C7: after any sequence of storeExecution, storeEnhancedExecution
\* (succeeding or failing) and cleanup calls, every performance_metrics row
\* and every memory_links row references an execution of the executions
\* table.
C7_NoOrphans ==
    /\ \A i \in 1..Len(db.performance_metrics) :
          db.performance_metrics[i].execution_id \in ExecIds(db)
    /\ \A i \in 1..Len(db.memory_links) :
          db.memory_links[i].execution_id \in ExecIds(db)

\* cleanup has deleted the first execution with its rows, then a
\* storeExecution raised after its execution row was written
C7_Witness ==
    /\ lastCall.op = "storeExecution"
    /\ lastCall.raised
    /\ db.seq = MaxId
    /\ ExecIds(db) = {MaxId}
    /\ db.memory_links = <<>>

\* C8: cleanup(retentionDays) deletes exactly the executions whose timestamp
\* is older than now minus retentionDays, and no performance_metrics row and
\* no memory_links row of a deleted execution remains; the other rows stay.
C8_CleanupDeletesOlder ==
    [][(lastCall'.op = "cleanup" /\ now' = now /\ dbOpen')
          => LET cutoff == now - lastCall'.arg
                 older == {db.executions[i].id :
                              i \in {j \in 1..Len(db.executions) :
                                        db.executions[j].timestamp < cutoff}}
             IN  /\ db'.executions = SelectSeq(db.executions, LAMBDA r : r.id \notin older)
                 /\ \A i \in 1..Len(db'.performance_metrics) :
                       db'.performance_metrics[i].execution_id \notin older
                 /\ \A i \in 1..Len(db'.memory_links) :
                       db'.memory_links[i].execution_id \notin older
                 /\ db'.performance_metrics =
                       SelectSeq(db.performance_metrics, LAMBDA r : r.execution_id \in ExecIds(db'))
                 /\ db'.memory_links =
                       SelectSeq(db.memory_links, LAMBDA r : r.execution_id \in ExecIds(db'))]_vars

\* cleanup(30) one step of the clock after the first store and right after
\* the second: the first execution is gone with its rows, the second, stored
\* at the cutoff, is kept with its metrics
C8_Witness ==
    /\ lastCall.op = "cleanup"
    /\ lastCall.arg = DecayDays
    /\ db.seq = 2
    /\ ExecIds(db) = {2}
    /\ db.executions[1].timestamp = now - DecayDays
    /\ db.performance_metrics # <<>>

-----------------------------------------------------------------------------
(* Concurrent use of the scorer: claims C11 and C12                        *)

\* C11: for every interleaving of updateWeights calls with a scoreResults
\* pass in flight, the pass does not raise: it terminates and returns one
\* result per candidate.
C11_RaceDoesNotCrash ==
    /\ [](pass.pc # "raised")
    /\ [](pass.pc = "returned" => Len(pass.returned) = Len(pass.rawResults))
    /\ (pass.pc = "loop") ~> (pass.pc = "returned")

\* a returned list of two whose scores were computed under different weight
\* maps: one is the score the present weights give, the other is not
C11_Witness ==
    /\ pass.pc = "returned"
    /\ Len(pass.returned) = 2
    /\ lastCall.op = "updateWeights"
    /\ \E i, j \in 1..2 :
          /\ pass.returned[i].relevanceScore
                = calculateWeightedScore(pass.returned[i].factors, weights)
          /\ pass.returned[j].relevanceScore
                # calculateWeightedScore(pass.returned[j].factors, weights)

\* the call p has so far done what it does when it runs alone
AsAlone(p) ==
    /\ p.pc # "raised"
    /\ p.pc = "loop" => Len(p.scoredResults) = p.i - 1
    /\ p.pc \in {"loop", "returned"} =>
          /\ Len(p.scoredResults) <= Len(p.rawResults)
          /\ \A i \in 1..Len(p.scoredResults) :
                p.scoredResults[i]
                   = ScoreOne(db, dbOpen, now, weights, p.query, p.rawResults[i]).scored
    /\ p.pc = "returned" =>
          p.returned = scoreResultsCall(db, dbOpen, now, weights, p.query, p.rawResults)

\* C12: two scoreResults calls on one scorer, interleaved at their await
\* points while the store and the weights stay unchanged, each return the
\* ranked list they return when run alone.
C12_PassesIndependent == AsAlone(pass) /\ AsAlone(pass2)

\* the first call has returned its list of two while the second, begun with
\* another query before the first ended its loop, is between its two turns
C12_Witness ==
    /\ pass.pc = "returned"
    /\ Len(pass.returned) = 2
    /\ pass2.pc = "loop"
    /\ pass2.i = 2
    /\ Len(pass2.rawResults) = 2
    /\ pass2.query # pass.query

-----------------------------------------------------------------------------
(* Identifiers: claim C13                                                  *)

\* C13: across any sequence of store calls and cleanup deletions, every id
\* returned by storeExecution or storeEnhancedExecution is > 0 and strictly
\* greater than every id given before it (the largest of which the store
\* keeps and never lowers), so it differs from all of them and is never
\* reused after its execution was deleted.
C13_IdsIncrease ==
    [][/\ db'.seq >= db.seq
       /\ \A k \in ExecIds(db) : k <= db.seq
       /\ (lastCall'.op \in {"storeExecution", "storeEnhancedExecution"}
              /\ ~lastCall'.raised /\ db' # db)
             => /\ lastCall'.id > 0
                /\ lastCall'.id > db.seq
                /\ lastCall'.id = db'.seq
                /\ lastCall'.id \in ExecIds(db') \ ExecIds(db)]_vars

\* execution 1 was deleted by cleanup; the store after it returned id 2
C13_Witness ==
    /\ lastCall.op \in {"storeExecution", "storeEnhancedExecution"}
    /\ ~lastCall.raised
    /\ lastCall.id = 2
    /\ ExecIds(db) = {2}

-----------------------------------------------------------------------------
(* Analytics: claims C14 and C15                                           *)

\* C14: getComprehensiveAnalytics reports overview.totalExecutions equal to
\* the number of stored executions, successfulExecutions + failedExecutions
\* = totalExecutions, and successRate = successfulExecutions /
\* totalExecutions exactly (0 for an empty store).
C14_OverviewCounts ==
    lastCall.op = "getComprehensiveAnalytics" =>
        LET o == lastCall.arg.overview
        IN  /\ ~lastCall.raised
            /\ o.totalExecutions = Cardinality(ExecIds(db))
            /\ o.successfulExecutions
                  = Cardinality({i \in 1..Len(db.executions) : db.executions[i].success})
            /\ o.successfulExecutions + o.failedExecutions = o.totalExecutions
            /\ o.totalExecutions > 0 =>
                  /\ ~IsNaN(o.successRate)
                  /\ o.successRate.n * o.totalExecutions
                        = o.successfulExecutions * o.successRate.d
            /\ o.totalExecutions = 0 => o.successRate = Zero

\* three executions, two of them successful: the success rate is 2/3
C14_Witness ==
    /\ lastCall.op = "getComprehensiveAnalytics"
    /\ lastCall.arg.overview.totalExecutions = 3
    /\ lastCall.arg.overview.successfulExecutions = 2
    /\ lastCall.arg.overview.failedExecutions = 1
    /\ lastCall.arg.overview.successRate = R(2, 3)

\* the store without the tags rows whose value cannot be read
WithoutUnreadableTags(d) ==
    [d EXCEPT !.performance_metrics =
        SelectSeq(@, LAMBDA r : ~(r.metric_type = "tags" /\ TagsUnreadable(r.metric_value)))]

\* the times tag is listed by a readable tags row of an execution that exists
TagCount(tag, successOnly) ==
    LET rows == SelectSeq(db.performance_metrics,
                          LAMBDA r : /\ r.metric_type = "tags"
                                     /\ r.metric_value.kind = "json"
                                     /\ r.execution_id \in ExecIds(db)
                                     /\ (successOnly =>
                                            \E i \in 1..Len(db.executions) :
                                               /\ db.executions[i].id = r.execution_id
                                               /\ db.executions[i].success))
        hits(r) == Cardinality({k \in 1..Len(r.metric_value.list) : r.metric_value.list[k] = tag})
        sum[i \in 0..Len(rows)] == IF i = 0 THEN 0 ELSE sum[i - 1] + hits(rows[i])
    IN  sum[Len(rows)]

\* C15: when a performance_metrics row with key tags holds a malformed JSON
\* value, getTagStatistics and getComprehensiveAnalytics do not raise; the
\* row contributes to no tag count, and the counts and success rates of the
\* tags of well-formed rows are as if the malformed row were absent.
C15_MalformedTagsSkipped ==
    lastCall.op = "getComprehensiveAnalytics" =>
        /\ ~lastCall.raised
        /\ lastCall.arg.topTags = getTagStatistics(WithoutUnreadableTags(db)).topTags
        /\ \A i \in 1..Len(lastCall.arg.topTags) :
              LET t == lastCall.arg.topTags[i]
              IN  /\ t.count = TagCount(t.tag, FALSE)
                  /\ t.count > 0
                  /\ t.successRate = R(TagCount(t.tag, TRUE), t.count)

\* a report over a store in which one execution has a malformed tags row and
\* another has a well-formed one
C15_Witness ==
    /\ lastCall.op = "getComprehensiveAnalytics"
    /\ \E i \in 1..Len(db.performance_metrics) :
          /\ db.performance_metrics[i].metric_type = "tags"
          /\ db.performance_metrics[i].metric_value.kind = "badjson"
          /\ db.performance_metrics[i].execution_id \in ExecIds(db)
    /\ Len(lastCall.arg.topTags) = 2

-----------------------------------------------------------------------------
(* The fields of a ScoredResult: claim C16                                 *)

\* the tag list stored with the execution id, if one was stored
StoredTags(id) ==
    LET rows == SelectSeq(db.performance_metrics,
                          LAMBDA r : r.execution_id = id /\ r.metric_type = "tags"
                                     /\ r.metric_value.kind = "json")
    IN  IF rows = <<>> THEN <<>> ELSE <<rows[1].metric_value.list>>

\* the query has a word, and a tag of T contains it or is contained in it
QueryOverlaps(query, T) ==
    \E i \in 1..Len(SplitWS(toLowerCase(query))) : \E k \in 1..Len(T) :
        LET word == SplitWS(toLowerCase(query))[i]
        IN  /\ word # <<>>
            /\ \/ Includes(toLowerCase(T[k]), word)
               \/ Includes(word, toLowerCase(T[k]))

\* the i-th candidate of the pass is a stored successful execution whose tags
\* the query overlaps
SolutionCase(i) ==
    /\ pass.rawResults[i].id \in ExecIds(db)
    /\ pass.rawResults[i].success
    /\ StoredTags(pass.rawResults[i].id) # <<>>
    /\ QueryOverlaps(pass.query, StoredTags(pass.rawResults[i].id)[1])

\* C16: for a stored execution with success = true and stored tag list T and
\* a query with a word that overlaps a tag of T, the ScoredResult has tags =
\* T, contextType = 'solution', contextScore > 0 and, under the default
\* weights, relevanceScore > 0; for any candidate, contextType is 'error'
\* exactly when its success flag is false.
C16_SolutionScored ==
    \A i \in 1..Len(pass.scoredResults) :
        LET s == pass.scoredResults[i]
        IN  /\ (s.contextType = "error") <=> ~pass.rawResults[i].success
            /\ SolutionCase(i) =>
                  /\ s.tags = StoredTags(pass.rawResults[i].id)[1]
                  /\ s.contextType = "solution"
                  /\ RGt(s.factors["contextScore"], Zero)
                  /\ weights = DefaultWeights => RGt(s.relevanceScore, Zero)

-----------------------------------------------------------------------------
(* Token overlap: claim C17                                                *)

\* C17: jaccardSimilarity returns 1 when both token collections are empty, 0
\* when exactly one of them is empty, and 1 whenever both arguments are the
\* same non-empty token collection, for every token collection that tokenize
\* can produce.
C17_JaccardOfEqualLists ==
    lastCall.op = "jaccardSimilarity" =>
        LET a == lastCall.arg
        IN  /\ (a.set1 = <<>> /\ a.set2 = <<>>) => a.similarity = One
            /\ ((a.set1 = <<>>) # (a.set2 = <<>>)) => a.similarity = Zero
            /\ (a.set1 = a.set2 /\ a.set1 # <<>>) => a.similarity = One

-----------------------------------------------------------------------------
(* Ties of the ranked list: claim C18                                      *)

\* the place of the candidate id in the list handed to scoreResults
PlaceOf(id) == CHOOSE k \in 1..Len(pass.rawResults) : pass.rawResults[k].id = id

SameScore(a, b) ==
    /\ ~IsNaN(a.relevanceScore)
    /\ a.relevanceScore = b.relevanceScore

-----------------------------------------------------------------------------
(* The weights of a new scorer: claim C19                                  *)

\* no updateWeights since the constructor
NewlyConstructed == lastCall.op # "updateWeights"

\* C19: a newly constructed AdvancedRelevanceScorer holds the weights
\* ftsScore 0.20, recencyScore 0.12, successScore 0.15, complexityScore 0.08,
\* confidenceScore 0.08, contextScore 0.12, frequencyScore 0.05,
\* semanticScore 0.20, and their sum is 1.0.
C19_ConstructorWeights ==
    NewlyConstructed =>
        /\ DOMAIN getWeights(weights) = Range(FactorNames)
        /\ getWeights(weights)["ftsScore"] = R(20, 100)
        /\ getWeights(weights)["recencyScore"] = R(12, 100)
        /\ getWeights(weights)["successScore"] = R(15, 100)
        /\ getWeights(weights)["complexityScore"] = R(8, 100)
        /\ getWeights(weights)["confidenceScore"] = R(8, 100)
        /\ getWeights(weights)["contextScore"] = R(12, 100)
        /\ getWeights(weights)["frequencyScore"] = R(5, 100)
        /\ getWeights(weights)["semanticScore"] = R(20, 100)
        /\ TotalWeight(getWeights(weights)) = One

\* a scorer that has ranked a list and has not been given other weights
C19_Witness ==
    /\ NewlyConstructed
    /\ pass.pc = "returned"
    /\ Len(pass.returned) = MaxCand
    /\ TotalWeight(weights) = One

-----------------------------------------------------------------------------
(* The repair: claim C20                                                   *)

Referenced(rows, d) == SelectSeq(rows, LAMBDA r : r.execution_id \in ExecIds(d))

\* C20 (a repair completes without error when its result has passed = true;
\* the call itself never raises): after repairDatabase completes without
\* error, no row of
\* memory_links, performance_metrics or file_changes references a missing
\* execution, while every execution and every row that referenced an
\* existing execution before the repair is still present.
C20_RepairRemovesOrphansOnly ==
    [][(lastCall'.op = "repairDatabase" /\ lastCall'.arg.passed)
          => /\ \A i \in 1..Len(db'.memory_links) :
                   db'.memory_links[i].execution_id \in ExecIds(db')
             /\ \A i \in 1..Len(db'.performance_metrics) :
                   db'.performance_metrics[i].execution_id \in ExecIds(db')
             /\ \A i \in 1..Len(db'.file_changes) :
                   db'.file_changes[i].execution_id \in ExecIds(db')
             /\ db'.executions = db.executions
             /\ db'.memory_links = Referenced(db.memory_links, db)
             /\ db'.performance_metrics = Referenced(db.performance_metrics, db)
             /\ db'.file_changes = Referenced(db.file_changes, db)]_vars

\* a repair that passed, took an orphan out of each of the three tables and
\* left the rows of the execution that exists
C20_Witness ==
    /\ lastCall.op = "repairDatabase"
    /\ lastCall.arg.passed
    /\ lastCall.arg.totalCleaned = 3
    /\ Len(db.executions) = 1
    /\ Len(db.memory_links) = 1
    /\ Len(db.performance_metrics) = 1
    /\ Len(db.file_changes) = 1

-----------------------------------------------------------------------------
(* The recency factor: claim C21                                           *)

\* x lies within tol of target
About(x, target, tol) ==
    /\ ~IsNaN(x)
    /\ RLe(RSub(target, tol), x)
    /\ RLe(x, RAdd(target, tol))

AgeInDays(i) == now - pass.rawResults[i].timestamp

\* C21: recencyScore = exp(-ageInDays / 30) is monotonically decreasing in
\* the age of the execution, with a value of about 1.0 for an execution made
\* now, about 0.5 (within 0.02) for one made 30 days ago and about 0.05
\* (within 0.02) for one made 90 days ago.
C21_RecencyDecay ==
    \A i \in 1..Len(pass.scoredResults) :
        LET score == pass.scoredResults[i].factors["recencyScore"]
        IN  /\ AgeInDays(i) = 0 => About(score, One, R(2, 100))
            /\ AgeInDays(i) = 30 => About(score, Half, R(2, 100))
            /\ AgeInDays(i) = 90 => About(score, R(5, 100), R(2, 100))
            /\ \A j \in 1..Len(pass.scoredResults) :
                  AgeInDays(i) < AgeInDays(j) =>
                      RGe(score, pass.scoredResults[j].factors["recencyScore"])

-----------------------------------------------------------------------------
(* The success factor: claim C22                                           *)

\* the executions whose prompt contains the first 50 characters of the
\* prompt p (LIKE: the case of letters is ignored)
Matching(p) ==
    {i \in 1..Len(db.executions) : Like(db.executions[i].prompt, Substring(p, 0, 50))}

\* of those, the at most RecentLimit most recent
RecentMatching(p) ==
    {i \in Matching(p) :
        Cardinality({j \in Matching(p) :
            \/ db.executions[j].timestamp > db.executions[i].timestamp
            \/ /\ db.executions[j].timestamp = db.executions[i].timestamp
               /\ db.executions[j].id > db.executions[i].id}) < RecentLimit}

-----------------------------------------------------------------------------
(* Growth rates: claim C23                                                 *)

\* the executions whose timestamp lies in the n days up to the day last
InWindow(last, n) ==
    Cardinality({i \in 1..Len(db.executions) :
        /\ db.executions[i].timestamp > last - n
        /\ db.executions[i].timestamp <= last})

\* (recent - prior) / prior * 100 over two windows of n days
GrowthOver(n) ==
    LET recent == InWindow(now, n)
        prior == InWindow(now - n, n)
    IN  IF prior = 0 THEN (IF recent > 0 THEN R(100, 1) ELSE Zero)
        ELSE RMul(R(recent - prior, prior), R(100, 1))

\* C23: weeklyGrowth and monthlyGrowth equal (recent - prior) / prior * 100,
\* where recent is the number of executions in the most recent N-day window
\* and prior the number in the N-day window before it (N = 7 and N = 30);
\* when prior is 0 the result is 100 if recent > 0 and 0 otherwise.
C23_GrowthRates ==
    lastCall.op = "getComprehensiveAnalytics" =>
        /\ lastCall.arg.trends.weeklyGrowth = GrowthOver(7)
        /\ lastCall.arg.trends.monthlyGrowth = GrowthOver(30)

-----------------------------------------------------------------------------
(* The metadata of a ScoredResult: claim C24                               *)

\* the metric of this key stored for the execution id, as <<value>> or <<>>
StoredMetric(id, key) == LastMetric(db, id, key)

LegalNumber(mv, low, high) ==
    mv.kind = "num" /\ RLe(R(low, 1), mv.num) /\ RLe(mv.num, R(high, 1))

\* C24: for every candidate, the tags, category, priority, complexity and
\* confidence of its ScoredResult each equal the candidate's stored metric
\* of that key whenever one is stored with a legal value (any tag list,
\* complexity 1 to 10, confidence 0 to 1 inclusive), and are the defaults
\* [], 'general', 'medium', 5 and 0.5 only when that metric is absent.
C24_MetadataOfCandidate ==
    \A i \in 1..Len(pass.scoredResults) :
        LET s == pass.scoredResults[i]
            id == pass.rawResults[i].id
        IN  /\ StoredTags(id) # <<>> => s.tags = StoredTags(id)[1]
            /\ StoredMetric(id, "tags") = <<>> => s.tags = <<>>
            /\ (StoredMetric(id, "category") # <<>> /\ StoredMetric(id, "category")[1].kind = "text")
                  => s.category = StoredMetric(id, "category")[1]
            /\ StoredMetric(id, "category") = <<>> => s.category = TextToMetric(TxtGeneral)
            /\ (StoredMetric(id, "priority") # <<>> /\ StoredMetric(id, "priority")[1].kind = "text")
                  => s.priority = StoredMetric(id, "priority")[1]
            /\ StoredMetric(id, "priority") = <<>> => s.priority = TextToMetric(TxtMedium)
            /\ (StoredMetric(id, "complexity") # <<>> /\ LegalNumber(StoredMetric(id, "complexity")[1], 1, 10))
                  => s.complexity = StoredMetric(id, "complexity")[1]
            /\ StoredMetric(id, "complexity") = <<>> => s.complexity = NumToMetric(R(5, 1))
            /\ (StoredMetric(id, "confidence") # <<>> /\ LegalNumber(StoredMetric(id, "confidence")[1], 0, 1))
                  => s.confidence = StoredMetric(id, "confidence")[1]
            /\ StoredMetric(id, "confidence") = <<>> => s.confidence = NumToMetric(Half)

-----------------------------------------------------------------------------
(* The text index: claim C25                                               *)

ResultIds == {lastCall.arg.results[i].executionId : i \in 1..Len(lastCall.arg.results)}

C27_SearchOrdered ==
    (lastCall.op = "search" /\ ~lastCall.raised) =>
        /\ Len(lastCall.arg.results) <= lastCall.arg.limit
        /\ \A i, j \in 1..Len(lastCall.arg.results) :
              i < j => RGe(lastCall.arg.results[i].relevanceScore,
                           lastCall.arg.results[j].relevanceScore)

\* the weighted combination of the factors under the weight map m
WeightedCombination(factors, m) ==
    LET products == [f \in Range(FactorNames) |-> RMul(factors[f], m[f])]
    IN  IF RGt(TotalWeight(m), Zero)
        THEN RDiv(SumOver(FactorNames, products, 1), TotalWeight(m))
        ELSE Zero

\* C26: when updateWeights runs during an in-flight scoreResults pass, the
\* relevanceScore of each candidate is the weighted combination of its
\* factors under one complete weight map, the map the scorer has at the
\* moment of the pass the candidate is scored at: no score mixes weights from
\* before and after an update.
C26_OneMapPerScore ==
    [][(pass.pc = "loop" /\ pass'.pc = "loop" /\ pass'.i = pass.i + 1) =>
          LET s == pass'.scoredResults[Len(pass'.scoredResults)]
          IN  /\ Len(pass'.scoredResults) = Len(pass.scoredResults) + 1
              /\ s.relevanceScore = WeightedCombination(s.factors, weights)]_vars

\* a pass in flight with two candidates scored and an update between their
\* turns: the first score is the combination under the weights of the
\* constructor, the second under the present weights, which give the first
\* candidate another score
C26_Witness ==
    /\ pass.pc = "loop"
    /\ Len(pass.scoredResults) = 2
    /\ weights # DefaultWeights
    /\ pass.scoredResults[1].relevanceScore
          = WeightedCombination(pass.scoredResults[1].factors, DefaultWeights)
    /\ pass.scoredResults[1].relevanceScore
          # WeightedCombination(pass.scoredResults[1].factors, weights)
    /\ pass.scoredResults[2].relevanceScore
          = WeightedCombination(pass.scoredResults[2].factors, weights)

\* C28: jaccardSimilarity is symmetric in its two arguments for all token
\* lists that tokenize can produce, lists that repeat a token included.
C28_JaccardSymmetric ==
    lastCall.op = "jaccardSimilarity" =>
        lastCall.arg.similarity = jaccardSimilarity(lastCall.arg.set2, lastCall.arg.set1)

\* C29: round trip of the enhanced store: getExecutionContext of the id the
\* store returned gives back the prompt, success, duration, session id,
\* tags, priority, category, complexity and confidence that were stored, and
\* the same actions in the same order (an action as the fields the store
\* writes).
C29_RoundTrip ==
    (lastCall.op = "getExecutionContext" /\ lastCall.arg.stored # <<>>) =>
        /\ ~lastCall.raised
        /\ lastCall.arg.context # <<>>
        /\ LET got == lastCall.arg.context[1]
               ctx == lastCall.arg.stored[1]
           IN  /\ got.prompt = ctx.prompt
               /\ got.success = ctx.success
               /\ got.duration = ctx.duration
               /\ got.sessionId = TextToMetric(ctx.sessionId)
               /\ got.tags = ctx.tags
               /\ got.priority = TextToMetric(ctx.priority)
               /\ got.category = TextToMetric(ctx.category)
               /\ got.complexity = ctx.complexity
               /\ got.confidence = ctx.confidence
               /\ got.actions = ctx.actions

\* C30: restoreBackup(f) either raises and leaves the live database content
\* unchanged and the connection usable, or replaces the live content with
\* exactly the content of backup f after saving a pre-restore copy; a backup
\* whose checksum differs from its metadata is never restored.
C30_RestoreAllOrNothing ==
    lastCall.op = "restoreBackup" =>
        LET a == lastCall.arg
        IN  /\ lastCall.raised => (db = a.before /\ dbOpen)
            /\ ~lastCall.raised => (db = a.file.content /\ a.preRestore = <<a.before>>)
            /\ (a.file.metadata # <<>> /\ a.file.metadata[1] # calculateChecksum(a.file.content))
                  => (lastCall.raised /\ db = a.before)

====
